---- MODULE Spec2Model ----
(***************************************************************************)
(* A model of dnsproxy: the three-way probe race of the DNS transport,     *)
(* the two transport-tagged caches, the startup gate, and the per-request  *)
(* classification of the DNS front and of the proxy front.                 *)
(***************************************************************************)
EXTENDS Integers, Sequences, FiniteSets, TLC

VARIABLES
    \* --- (*dnsTransport).legallySpawnExchange, one call ---
    exchange,      \* what each probe's Exchange does: succeed, fail, never return
    spawned,       \* how many probe goroutines the loop has started
    probePc,       \* each probe goroutine's position
    failedTimes,   \* the shared failure counter
    resp,          \* the buffered channel of responses (capacity spawnNum)
    sent,          \* history: everything ever sent on resp, in order
    racePc,        \* the caller's position
    raceResp,      \* the response returned
    raceErr,       \* the error returned
    \* --- the caches, as a client of their API sees them ---
    ipcache,       \* ip text -> transport, or NoEntry
    domaincache,   \* domain -> cell, or NoEntry
    \* --- the fronts ---
    last,          \* history: what the most recent operation did
    ops,           \* how many operations have run
    \* --- the package globals and the startup gate ---
    globals,       \* for each global of InitGlobals, whether it is non-nil
    validator,     \* _DEFAULT_GLOBALS_VALIDATOR: whether its Once has run, and ok
    fronts,        \* for each front, whether it was asked to serve and what it did
    \* --- the process: _main, its two goroutines, the listeners, the handlers ---
    mainPc,        \* _main: "start", "recv" (at <-e), "exited", or "crashed" by a panic
    exitCode,      \* the exit code of the process once it has ended
    proxyFront,    \* the goroutine that runs ServeProxy: its position and its error
    dnsFront,      \* the goroutine that runs ServeDNS, and serveDNS's two listeners
    handlers,      \* the per-connection and per-query handlers started so far
    \* --- the unknown-domain path of one DNS query: the handler and probe A ---
    joinPc,        \* the handler's position in the default case
    joinBranch,    \* the branch probe B's result selected, Nil before
    aPc,           \* the position of probe A's goroutine
    await,         \* the channel awaitAbroadQueryWithRemoteResp
    \* --- the request message a race shares with its probes ---
    reqEcs,        \* the ECS address in the raced request req, Nil when it has none
    wire,          \* the ECS addresses of the requests written to the raced upstream
    obPc,          \* the handler's position in case matchObedient
    \* --- a message handed to MsgSetECSWithAddr and MsgExtractAnswer ---
    benchMsg,      \* the message
    benchLog,      \* the addresses MsgSetECSWithAddr was called with, in order
    benchAns,      \* what the last MsgExtractAnswer returned, and whether it was called
    \* --- a domain handed to the matcher ---
    matchIn,       \* the domain
    matchOut,      \* what MatchGFW and MatchObedient returned for it, once called
    \* --- one proxy connection's byte stream ---
    stream,        \* every byte the client sends on the connection
    cc,            \* the connLeftAppendReader: r, reof, conn, and whether it exists yet
    got,           \* the bytes the request parser has read so far
    rd,            \* what the parser's last Read returned: n and err
    proto          \* the protocol the handler chose, Nil before

raceVars  == <<exchange, spawned, probePc, failedTimes, resp, sent, racePc, raceResp, raceErr>>
cacheVars == <<ipcache, domaincache>>
gateVars  == <<globals, validator, fronts>>
bootVars  == <<mainPc, exitCode, proxyFront, dnsFront, handlers>>
joinVars  == <<joinPc, joinBranch, aPc, await>>
obVars    == <<reqEcs, wire, obPc>>
msgVars   == <<benchMsg, benchLog, benchAns>>
matchVars == <<matchIn, matchOut>>
connVars  == <<stream, cc, got, rd, proto>>
pureVars  == <<msgVars, matchVars, connVars>>
procVars  == <<bootVars, joinVars, obVars, pureVars>>
nonRaceVars == <<cacheVars, last, ops, gateVars, procVars>>
vars      == <<raceVars, cacheVars, last, ops, gateVars, procVars>>

Nil == "nil"

(***************************************************************************)
(* The probe race                                                          *)
(***************************************************************************)

spawnNum == 3

Probes == 1..spawnNum

\* a channel that holds one response only
respCapOne == spawnNum - 2

\* resp := make(chan *dns.Msg, spawnNum)
respCap == spawnNum

\* Responses an upstream may give to the raced request.
RaceMsgs == {"r1", "r2"}

\* The error probe i's Exchange returns when it fails.
ErrOf(i) == <<"e1", "e2", "e3">>[i]

\* Exchange of probe i: returns a response, returns its own error, or hangs.
ExchangeOutcomes(i) ==
    {[kind |-> "ok", val |-> m] : m \in RaceMsgs}
        \cup {[kind |-> "err", val |-> ErrOf(i)], [kind |-> "hang", val |-> Nil]}

\* the raced request as the caller passes it on, nothing written yet, and no
\* matchObedient case followed
ReqStart ==
    /\ reqEcs = Nil
    /\ wire = {}
    /\ obPc = "off"

RaceStart ==
    /\ spawned = 0
    /\ probePc = [i \in Probes |-> "unspawned"]
    /\ failedTimes = 0
    /\ resp = <<>>
    /\ sent = <<>>
    /\ racePc = "spawn"
    /\ raceResp = Nil
    /\ raceErr = Nil

\* for range [spawnNum]struct{}{} { go func() {...}() }
Spawn ==
    /\ racePc = "spawn"
    /\ spawned' = spawned + 1
    /\ probePc' = [probePc EXCEPT ![spawned + 1] = "exchange"]
    /\ racePc' = IF spawned + 1 = spawnNum THEN "recvResp" ELSE "spawn"
    /\ UNCHANGED <<exchange, failedTimes, resp, sent, raceResp, raceErr, nonRaceVars>>

\* co.WriteMsg(req) in probe i's Exchange: the request goes to the upstream
\* as req is at that moment (all probes share the caller's req)
WriteMsg(i) ==
    /\ probePc[i] = "exchange"
    /\ probePc' = [probePc EXCEPT ![i] = "written"]
    /\ wire' = wire \cup {reqEcs}
    /\ UNCHANGED <<exchange, spawned, failedTimes, resp, sent, racePc, raceResp, raceErr,
                   cacheVars, last, ops, gateVars, bootVars, joinVars, reqEcs, obPc, pureVars>>

\* r, err := dt.Exchange(req) returns in probe i: with a response after the
\* request was written, with an error before (dial) or after it
ExchangeReturns(i) ==
    /\ \/ probePc[i] = "written"
       \/ probePc[i] = "exchange" /\ exchange[i].kind = "err"
    /\ exchange[i].kind # "hang"
    /\ probePc' = [probePc EXCEPT ![i] = IF exchange[i].kind = "ok" THEN "sendResp" ELSE "load"]
    /\ UNCHANGED <<exchange, spawned, failedTimes, resp, sent, racePc, raceResp, raceErr, nonRaceVars>>

\* resp <- r
SendResp(i) ==
    /\ probePc[i] = "sendResp"
    /\ Len(resp) < respCap
    /\ resp' = Append(resp, exchange[i].val)
    /\ sent' = Append(sent, exchange[i].val)
    /\ probePc' = [probePc EXCEPT ![i] = "done"]
    /\ UNCHANGED <<exchange, spawned, failedTimes, racePc, raceResp, raceErr, nonRaceVars>>

LastFailureMutant(n) == n = spawnNum - 2

\* atomic.LoadInt32(&failedTimes) == int32(spawnNum-1)
LastFailure(n) == n = spawnNum - 1

\* the failing probe reads the counter and chooses its branch
LoadFailedTimes(i) ==
    /\ probePc[i] = "load"
    /\ probePc' = [probePc EXCEPT ![i] = IF LastFailure(failedTimes) THEN "sendNil" ELSE "add"]
    /\ UNCHANGED <<exchange, spawned, failedTimes, resp, sent, racePc, raceResp, raceErr, nonRaceVars>>

\* atomic.AddInt32(&failedTimes, 1)
AddFailedTimes(i) ==
    /\ probePc[i] = "add"
    /\ failedTimes' = failedTimes + 1
    /\ probePc' = [probePc EXCEPT ![i] = "done"]
    /\ UNCHANGED <<exchange, spawned, resp, sent, racePc, raceResp, raceErr, nonRaceVars>>

\* resp <- nil
SendNil(i) ==
    /\ probePc[i] = "sendNil"
    /\ Len(resp) < respCap
    /\ resp' = Append(resp, Nil)
    /\ sent' = Append(sent, Nil)
    /\ probePc' = [probePc EXCEPT ![i] = "sendErr"]
    /\ UNCHANGED <<exchange, spawned, failedTimes, racePc, raceResp, raceErr, nonRaceVars>>

\* r := <-resp in the caller; a non-nil r is returned with a nil error
RecvResp ==
    /\ racePc = "recvResp"
    /\ resp # <<>>
    /\ raceResp' = Head(resp)
    /\ resp' = Tail(resp)
    /\ racePc' = IF Head(resp) # Nil THEN "returned" ELSE "recvErr"
    /\ UNCHANGED <<exchange, spawned, probePc, failedTimes, sent, raceErr, nonRaceVars>>

\* lastErr <- err in probe i meets <-lastErr in the caller (unbuffered channel)
SendErr(i) ==
    /\ probePc[i] = "sendErr"
    /\ racePc = "recvErr"
    /\ raceErr' = exchange[i].val
    /\ racePc' = "returned"
    /\ probePc' = [probePc EXCEPT ![i] = "done"]
    /\ UNCHANGED <<exchange, spawned, failedTimes, resp, sent, raceResp, nonRaceVars>>

ProbeStep(i) ==
    \/ WriteMsg(i)
    \/ ExchangeReturns(i)
    \/ SendResp(i)
    \/ LoadFailedTimes(i)
    \/ AddFailedTimes(i)
    \/ SendNil(i)
    \/ SendErr(i)

CallerStep == Spawn \/ RecvResp

\* (*dnsTransport).legallySpawnExchange: the caller and its three probes
RaceNext ==
    \/ Spawn
    \/ RecvResp
    \/ \E i \in Probes : WriteMsg(i)
    \/ \E i \in Probes : ExchangeReturns(i)
    \/ \E i \in Probes : SendResp(i)
    \/ \E i \in Probes : LoadFailedTimes(i)
    \/ \E i \in Probes : AddFailedTimes(i)
    \/ \E i \in Probes : SendNil(i)
    \/ \E i \in Probes : SendErr(i)

(***************************************************************************)
(* The unknown-domain path of handleDnsRequest: probe A and the handler    *)
(***************************************************************************)

\* awaitAbroadQueryWithRemoteResp := make(chan *dns.Msg, 1)
awaitCap == 1

\* the branches of the default case, by what probe B gave
BranchDirect == "DIRECT"
BranchProxy == "PROXY"
BranchBFailed == "BFAILED"
Branches == {BranchDirect, BranchProxy, BranchBFailed}

\* no unknown-domain query is being followed
JoinOff ==
    /\ joinPc = "off"
    /\ joinBranch = Nil
    /\ aPc = "unspawned"
    /\ await = <<>>

joinFrame == <<cacheVars, last, ops, gateVars, bootVars, obVars, pureVars>>

\* go func() { ...; resp, _ := _DNSSTRANSPORT_ABROAD.legallySpawnExchange(...);
\* awaitAbroadQueryWithRemoteResp <- resp }(): probe A's goroutine starts, the
\* handler goes on to probe B
SpawnA ==
    /\ joinPc = "start"
    /\ joinPc' = "raceB"
    /\ aPc' = "race"
    /\ racePc' = "spawn"
    /\ UNCHANGED <<exchange, spawned, probePc, failedTimes, resp, sent, raceResp, raceErr,
                   joinBranch, await, joinFrame>>

\* probe B's legallySpawnExchange returns to the handler and selects the joinBranch
BReturns ==
    /\ joinPc = "raceB"
    /\ \E b \in Branches :
          /\ joinBranch' = b
          /\ joinPc' = IF b = BranchProxy THEN "awaitA" ELSE "raceO"
    /\ UNCHANGED <<raceVars, aPc, await, joinFrame>>

\* DIRECT and B-failed branches: the obedient legallySpawnExchange returns and
\* the handler completes
OReturns ==
    /\ joinPc = "raceO"
    /\ joinPc' = "done"
    /\ UNCHANGED <<raceVars, joinBranch, aPc, await, joinFrame>>

\* PROXY joinBranch: _resp := <-awaitAbroadQueryWithRemoteResp
AwaitA ==
    /\ joinPc = "awaitA"
    /\ await # <<>>
    /\ await' = Tail(await)
    /\ joinPc' = "done"
    /\ UNCHANGED <<raceVars, joinBranch, aPc, joinFrame>>

\* probe A's legallySpawnExchange has returned (its error is dropped)
AReturns ==
    /\ aPc = "race"
    /\ racePc = "returned"
    /\ aPc' = "send"
    /\ UNCHANGED <<raceVars, joinPc, joinBranch, await, joinFrame>>

\* awaitAbroadQueryWithRemoteResp <- resp
ASends ==
    /\ aPc = "send"
    /\ Len(await) < awaitCap
    /\ await' = Append(await, raceResp)
    /\ aPc' = "done"
    /\ UNCHANGED <<raceVars, joinPc, joinBranch, joinFrame>>

JoinNext ==
    \/ SpawnA
    \/ BReturns
    \/ OReturns
    \/ AwaitA
    \/ AReturns
    \/ ASends
    \/ RaceNext

(***************************************************************************)
(* Data: addresses, domain names, DNS messages                             *)
(***************************************************************************)

\* type transport int8; const ( _TRANS_DIRECT = iota; _TRANS_PROXY )
TRANS_DIRECT == "DIRECT"
TRANS_PROXY == "PROXY"

\* A net.IP: its byte length (0 for nil), the network it lies in, and the
\* text ip.String() gives.
NilIP == [len |-> 0, net |-> "", text |-> "<nil>"]
CN1 == [len |-> 4, net |-> "1.0.0.0/8", text |-> "1.2.3.4"]
CN2 == [len |-> 4, net |-> "1.0.0.0/8", text |-> "1.2.3.5"]
FR1 == [len |-> 4, net |-> "8.0.0.0/8", text |-> "8.8.4.4"]
V61 == [len |-> 16, net |-> "2001::/16", text |-> "2001::1"]

V4Addrs == {CN1, CN2, FR1}
V6Addrs == {V61}

\* ip.To4() != nil
To4(ip) == ip.len = 4

\* ip.String()
IPString(ip) == ip.text

\* the networks of china_ip_list
chnIPList == {"1.0.0.0/8"}

\* ipInIPNetList(ip, ipnets)
ipInIPNetList(ip, ipnets) ==
    IF ip.len = 0 THEN FALSE ELSE \E n \in ipnets : ip.net = n

\* _IP_MATCH_CHINESE_MAINLAND, as _main sets it
IP_MATCH_CHINESE_MAINLAND(ip) == ipInIPNetList(ip, chnIPList)

\* the ECS sentinels, as _main sets them
DNS_SUBNET_LOCAL_IP == "114.114.114.114"
DNS_SUBNET_PROXY_IP == "8.8.8.8"

\* Names are sequences of characters.
Dot == <<".">>

\* strings.HasSuffix(s, suffix)
HasSuffix(s, suffix) ==
    /\ Len(s) >= Len(suffix)
    /\ SubSeq(s, Len(s) - Len(suffix) + 1, Len(s)) = suffix

\* dns.Fqdn(domain)
Fqdn(domain) == IF HasSuffix(domain, Dot) THEN domain ELSE domain \o Dot

gfwList == << <<"g">>, <<"b">> >>
chineseList == << <<"o">>, <<"b">> >>

\* a matcher that asks for the rule's characters at the end only
domainMatchListNoDot(domain, domainList) ==
    \E k \in 1..Len(domainList) : HasSuffix(domain, domainList[k])

\* domainMatchList(domain, domainList)
domainMatchList(domain, domainList) ==
    \E k \in 1..Len(domainList) :
        domainList[k] = domain \/ HasSuffix(domain, Dot \o domainList[k])

MatchGFW(domain) == domainMatchList(domain, gfwList)
MatchObedient(domain) == domainMatchList(domain, chineseList)

\* ---- the matcher on domains of every shape ----

\* The domains handed to the matcher have at most this many characters.
MaxDomainLen == 3

MatchChars == {"g", "b", "o", "x", "."}

MatchDomains == UNION {[1..n -> MatchChars] : n \in 0..MaxDomainLen}

NoMatch == [done |-> FALSE, gfw |-> FALSE, obedient |-> FALSE]

\* no domain is followed
MatchBenchOff ==
    /\ matchIn = <<>>
    /\ matchOut = NoMatch

matchFrame == <<raceVars, cacheVars, last, ops, gateVars, bootVars, joinVars, obVars,
                msgVars, connVars>>

\* _DEFAULT_DOMAIN_MATCHER.MatchGFW(domain) and .MatchObedient(domain)
Match ==
    /\ ~matchOut.done
    /\ matchOut' = [done |-> TRUE, gfw |-> MatchGFW(matchIn),
                    obedient |-> MatchObedient(matchIn)]
    /\ UNCHANGED <<matchIn, matchFrame>>

MatchNext == Match

\* A resource record; addr is NilIP for a record that carries no address.
RR(t, n, a) == [rrtype |-> t, name |-> n, addr |-> a]
NilRR == RR("nil", <<>>, NilIP)

\* the RCODEs of upstream responses (dns.RcodeSuccess and two others)
RcodeSuccess == "NOERROR"
RcodeServerFailure == "SERVFAIL"
RcodeNameError == "NXDOMAIN"

\* A dns.Msg, as far as the fronts read it; NilMsg is the nil *dns.Msg.
Msg(hdr, rc, qs, ans, ex) ==
    [nil |-> FALSE, hdr |-> hdr, rcode |-> rc, question |-> qs, answer |-> ans, extra |-> ex]

\* dns.MsgHdr, as far as the fronts set it: Id, Response, Opcode,
\* RecursionAvailable
MsgHdr(id, response, opcode, ra) ==
    [id |-> id, response |-> response, opcode |-> opcode, ra |-> ra]

OpcodeQuery == "QUERY"
OpcodeNotify == "NOTIFY"

\* the header of new(dns.Msg)
ZeroHdr == MsgHdr("id0", FALSE, OpcodeQuery, FALSE)

NilMsg ==
    [nil |-> TRUE, hdr |-> ZeroHdr, rcode |-> RcodeSuccess, question |-> <<>>,
     answer |-> <<>>, extra |-> <<>>]

\* a reply that takes nothing from the request's header
MsgNewReplyZeroHdr(req, answer) ==
    Msg([ZeroHdr EXCEPT !.response = TRUE, !.ra = TRUE], RcodeSuccess,
        IF Len(req.question) > 0 THEN <<req.question[1]>> ELSE <<>>,
        answer, <<>>)

\* MsgNewReplyFromReq(req, answer...)
MsgNewReplyFromReq(req, answer) ==
    Msg(MsgHdr(req.hdr.id, TRUE, req.hdr.opcode, TRUE), RcodeSuccess,
        IF Len(req.question) > 0 THEN <<req.question[1]>> ELSE <<>>,
        answer, <<>>)

\* the message id of the query for question q (dns.Id() in SetQuestion, the
\* client's own id in its request): one id per question type here
IdOf(q) == IF q.qtype = "A" THEN "id1" ELSE "id2"

\* (*dns.Msg).SetQuestion: a fresh id, opcode QUERY
QueryHdr(q) == MsgHdr(IdOf(q), FALSE, OpcodeQuery, FALSE)

\* the header of a client's request for q; its opcode is the client's choice
ClientHdr(q) ==
    MsgHdr(IdOf(q), FALSE, IF q.qtype = "A" THEN OpcodeQuery ELSE OpcodeNotify, FALSE)

\* the header of an upstream's response to the query for q: Exchange gives
\* back responses of the request's id only (r.Id != req.Id is dns.ErrId)
ResponseHdr(q) == MsgHdr(IdOf(q), TRUE, OpcodeQuery, TRUE)

\* An OPT record holding the given options; an EDNS0_SUBNET option.
OPT(options) == [rrtype |-> "OPT", name |-> Dot, option |-> options]
EDNS0_SUBNET(addr, family, mask) ==
    [code |-> "SUBNET", address |-> addr, family |-> family, netmask |-> mask, scope |-> 0]

\* m.IsEdns0(): the index in Extra of the first OPT record, 0 when there is none
IsEdns0(m) ==
    LET opts == {k \in 1..Len(m.extra) : m.extra[k].rrtype = "OPT"}
    IN IF opts = {} THEN 0 ELSE CHOOSE k \in opts : \A l \in opts : k <= l

\* the first EDNS0_SUBNET option of an option list, 0 when there is none
FirstSubnet(options) ==
    LET subs == {k \in 1..Len(options) : options[k].code = "SUBNET"}
    IN IF subs = {} THEN 0 ELSE CHOOSE k \in subs : \A l \in subs : k <= l

\* MsgSetECSWithAddr(m, addr); addr is an address text and its family is
\* read off it (IsV4Text), Nil is the nil address
IsV4Text(addr) == addr \in {DNS_SUBNET_LOCAL_IP, DNS_SUBNET_PROXY_IP} \cup {a.text : a \in V4Addrs}

\* a setter that adds a new subnet option at every call
MsgSetECSAppend(m, addr) ==
    IF addr = Nil THEN m
    ELSE
        LET extra1 == IF IsEdns0(m) = 0 THEN Append(m.extra, OPT(<<>>)) ELSE m.extra
            o == IF IsEdns0(m) = 0 THEN Len(extra1) ELSE IsEdns0(m)
            ecs == IF IsV4Text(addr) THEN EDNS0_SUBNET(addr, 1, 32)
                   ELSE EDNS0_SUBNET(addr, 2, 128)
        IN [m EXCEPT !.extra = [extra1 EXCEPT ![o] = OPT(Append(extra1[o].option, ecs))]]

MsgSetECSWithAddr(m, addr) ==
    IF addr = Nil THEN m
    ELSE
        LET extra1 == IF IsEdns0(m) = 0 THEN Append(m.extra, OPT(<<>>)) ELSE m.extra
            o == IF IsEdns0(m) = 0 THEN Len(extra1) ELSE IsEdns0(m)
            opts == extra1[o].option
            ecs == IF IsV4Text(addr) THEN EDNS0_SUBNET(addr, 1, 32)
                   ELSE EDNS0_SUBNET(addr, 2, 128)
            opts1 == IF FirstSubnet(opts) = 0 THEN Append(opts, ecs)
                     ELSE [opts EXCEPT ![FirstSubnet(opts)] = ecs]
        IN [m EXCEPT !.extra = [extra1 EXCEPT ![o] = OPT(opts1)]]

\* The client subnet an upstream reads from a request (as
\* MsgExchangeOverGoogleDOH does): the last subnet option of its OPT record.
ECSOf(m) ==
    IF IsEdns0(m) = 0 THEN Nil
    ELSE LET opts == m.extra[IsEdns0(m)].option
             subs == {k \in 1..Len(opts) : opts[k].code = "SUBNET"}
         IN IF subs = {} THEN Nil
            ELSE opts[CHOOSE k \in subs : \A l \in subs : l <= k].address

\* an extraction that takes the first record of the Answer section, whatever it is
MsgExtractAnswerIdxAnyRecord(msg) ==
    IF msg.nil \/ msg.answer = <<>> THEN 0 ELSE 1

\* an extraction that looks at the first record only
MsgExtractAnswerIdxFirstOnly(msg) ==
    IF msg.nil \/ msg.answer = <<>> THEN 0
    ELSE IF msg.answer[1].rrtype \in {"A", "AAAA"} /\ msg.answer[1].addr.len # 0
         THEN 1 ELSE 0

\* an extraction that takes an address record whether its address is empty or not
MsgExtractAnswerIdxAnyAddr(msg) ==
    IF msg.nil THEN 0
    ELSE LET hits == {k \in 1..Len(msg.answer) : msg.answer[k].rrtype \in {"A", "AAAA"}}
         IN IF hits = {} THEN 0 ELSE CHOOSE k \in hits : \A l \in hits : k <= l

\* MsgExtractAnswer(msg): the index in msg.Answer of the first A or AAAA
\* record with a non-empty address, 0 when there is none (a nil answer)
MsgExtractAnswerIdx(msg) ==
    IF msg.nil THEN 0
    ELSE LET hits == {k \in 1..Len(msg.answer) :
                        /\ msg.answer[k].rrtype \in {"A", "AAAA"}
                        /\ msg.answer[k].addr.len # 0}
         IN IF hits = {} THEN 0 ELSE CHOOSE k \in hits : \A l \in hits : k <= l

\* MsgExtractAnswer(msg) = (ans, ip)
MsgExtractAnswer(msg) ==
    LET k == MsgExtractAnswerIdx(msg)
    IN IF k = 0 THEN [ans |-> NilRR, ip |-> NilIP]
       ELSE [ans |-> msg.answer[k], ip |-> msg.answer[k].addr]

\* ---- MsgSetECSWithAddr and MsgExtractAnswer on messages of every shape ----

\* MsgSetECSWithAddr is followed for this many calls on one message.
MaxEcsCalls == 2

\* The Answer sections have at most this many records.
MaxAnswers == 2

\* the owner name of the records of a followed message
BenchName == <<"n", ".">>

\* the records a followed Answer section is made of: an A record, an A record
\* with an empty address, an AAAA record, a CNAME record
BenchRecords ==
    {RR("A", BenchName, CN1), RR("A", BenchName, NilIP),
     RR("AAAA", BenchName, V61), RR("CNAME", BenchName, NilIP)}

BenchAnswers == UNION {[1..n -> BenchRecords] : n \in 0..MaxAnswers}

\* an option that is no EDNS0_SUBNET, and a subnet option as a client may send
BenchCookie == [code |-> "COOKIE", address |-> Nil, family |-> 0, netmask |-> 0, scope |-> 0]
BenchSubnet == [EDNS0_SUBNET(CN2.text, 1, 24) EXCEPT !.scope = 24]

\* the Additional sections followed: at most one OPT record, with at most one
\* subnet option
BenchExtras ==
    {<<>>, <<OPT(<<>>)>>, <<OPT(<<BenchSubnet>>)>>, <<OPT(<<BenchCookie>>)>>,
     <<OPT(<<BenchCookie, BenchSubnet>>)>>,
     <<RR("TXT", BenchName, NilIP), OPT(<<BenchSubnet>>)>>}

BenchMsgs ==
    {Msg(ZeroHdr, RcodeSuccess, <<>>, a, x) : a \in BenchAnswers, x \in BenchExtras}
        \cup {NilMsg}

\* the non-nil addresses MsgSetECSWithAddr is called with
EcsAddrs == {DNS_SUBNET_LOCAL_IP, DNS_SUBNET_PROXY_IP, V61.text}

NoAnswer == [done |-> FALSE, ans |-> NilRR, ip |-> NilIP]

\* no message is followed
MsgBenchOff ==
    /\ benchMsg = NilMsg
    /\ benchLog = <<>>
    /\ benchAns = NoAnswer

msgFrame == <<raceVars, cacheVars, last, ops, gateVars, bootVars, joinVars, obVars,
              matchVars, connVars>>

\* MsgSetECSWithAddr(m, addr) on a non-nil message
SetECS ==
    /\ ~benchMsg.nil
    /\ Len(benchLog) < MaxEcsCalls
    /\ \E addr \in EcsAddrs :
          /\ benchMsg' = MsgSetECSWithAddr(benchMsg, addr)
          /\ benchLog' = Append(benchLog, addr)
    /\ UNCHANGED <<benchAns, msgFrame>>

\* ans, ip := MsgExtractAnswer(msg)
ExtractAnswer ==
    /\ ~benchAns.done
    /\ benchAns' = [done |-> TRUE, ans |-> MsgExtractAnswer(benchMsg).ans,
                    ip |-> MsgExtractAnswer(benchMsg).ip]
    /\ UNCHANGED <<benchMsg, benchLog, msgFrame>>

MsgNext == SetECS \/ ExtractAnswer

(***************************************************************************)
(* The caches                                                              *)
(***************************************************************************)

\* A cache is a function from its live keys; an expired entry is no key.

\* cache.Cache.Add of go-cache: stores only when the key has no live entry
\* (its error is dropped by both callers)
innerAdd(c, k, v) == IF k \in DOMAIN c THEN c ELSE (k :> v) @@ c

\* (ipcache).Add(ip, t)
ipcacheAdd(c, ip, t) == IF ip = "" THEN c ELSE innerAdd(c, ip, t)

\* (ipcache).Get(ip) = (t, ok)
ipcacheGet(c, ip) ==
    IF ip \in DOMAIN c THEN [v |-> c[ip], ok |-> TRUE] ELSE [v |-> TRANS_DIRECT, ok |-> FALSE]

\* type domaincacheCell
domaincacheCell(answer, t) == [ans |-> answer, trans |-> t]

\* (domaincache).Add(domain, answer, t): the cache after it, and the answer
\* record after it (its owner name is rewritten in place)
domaincacheAdd(c, domain, answer, t) ==
    IF domain = <<>> THEN [cache |-> c, answer |-> answer]
    ELSE LET a == IF Fqdn(domain) # answer.name
                  THEN [answer EXCEPT !.name = Fqdn(domain)] ELSE answer
         IN [cache |-> innerAdd(c, domain, domaincacheCell(a, t)), answer |-> a]

domaincacheGetFqdnKey(c, domain) ==
    IF Fqdn(domain) \in DOMAIN c THEN [v |-> c[Fqdn(domain)], ok |-> TRUE]
    ELSE [v |-> domaincacheCell(NilRR, TRANS_DIRECT), ok |-> FALSE]

\* (domaincache).Get(domain) = (cell, ok)
domaincacheGet(c, domain) ==
    IF domain \in DOMAIN c THEN [v |-> c[domain], ok |-> TRUE]
    ELSE [v |-> domaincacheCell(NilRR, TRANS_DIRECT), ok |-> FALSE]

(***************************************************************************)
(* The DNS front: handleDnsRequest                                         *)
(***************************************************************************)

\* The result of one legallySpawnExchange call, as its caller sees it: a
\* response of one of the probes, the error of the last failure, or no
\* return at all (every probe took the increment branch, or the probes hang).
RaceOk(m) == [kind |-> "ok", msg |-> m]
RaceErr == [kind |-> "err", msg |-> NilMsg]
RaceHang == [kind |-> "hang", msg |-> NilMsg]

\* A probe whose result the handler never reads.
Unread == [kind |-> "unread", msg |-> NilMsg]

\* One race the handler starts: the upstream, the client subnet and the
\* question of the request it sends, and the result the handler gets from it.
Contact(up, req, res) ==
    [upstream |-> up, ecs |-> ECSOf(req), question |-> req.question[1], result |-> res]

\* What one run of the handler did.  hung: it never returned (a race it
\* waits for never returns); err: it ended at ERR; reply: the resp the
\* classification returned (NilMsg for nil); dc, ic: the caches after it; dcAdd,
\* icAdd: its calls of domaincache.Add and ipcache.Add.
Handled(branch, matched, contacts, hung, err, reply, dc, ic, dcAdd, icAdd) ==
    [branch |-> branch, matched |-> matched, contacts |-> contacts, hung |-> hung,
     err |-> err, reply |-> reply, dc |-> dc, ic |-> ic, dcAdd |-> dcAdd, icAdd |-> icAdd]

\* _DEFAULT_DOMAINCACHE.Add(domain, ans, trans); _DEFAULT_IPCACHE.Add(ip.String(), trans)
\* and return resp (r here), where ans is the record at resp.Answer[k]
cacheAndReply(branch, matched, contacts, domain, r, trans, dc, ic) ==
    LET k == MsgExtractAnswerIdx(r)
        e == MsgExtractAnswer(r)
        add == domaincacheAdd(dc, domain, e.ans, trans)
        resp1 == [r EXCEPT !.answer[k] = add.answer]
    IN Handled(branch, matched, contacts, FALSE, FALSE, resp1,
               add.cache, ipcacheAdd(ic, IPString(e.ip), trans),
               <<[domain |-> domain, ans |-> add.answer, trans |-> trans]>>,
               <<[ip |-> IPString(e.ip), trans |-> trans]>>)

\* a path that ends with no cache call: a reply, an error, or no return
noCache(branch, matched, contacts, hung, err, reply, dc, ic) ==
    Handled(branch, matched, contacts, hung, err, reply, dc, ic, <<>>, <<>>)

\* case matchGfw; a: the race on the abroad upstream
caseMatchGfw(req, domain, matched, dc, ic, a) ==
    LET req1 == MsgSetECSWithAddr(req, DNS_SUBNET_PROXY_IP)
        contacts == <<Contact("abroad", req1, a)>>
    IN IF a.kind = "hang" THEN noCache("gfw", matched, contacts, TRUE, FALSE, NilMsg, dc, ic)
       ELSE IF a.kind = "err" THEN noCache("gfw", matched, contacts, FALSE, TRUE, NilMsg, dc, ic)
       ELSE IF MsgExtractAnswerIdx(a.msg) # 0
            THEN cacheAndReply("gfw", matched, contacts, domain, a.msg, TRANS_PROXY, dc, ic)
            ELSE noCache("gfw", matched, contacts, FALSE, FALSE, a.msg, dc, ic)

caseMatchObedientCachingRetry(req, domain, matched, dc, ic, o, b) ==
    LET c1 == <<Contact("obedient", req, o)>>
        req1 == MsgSetECSWithAddr(req, DNS_SUBNET_LOCAL_IP)
        c2 == Append(c1, Contact("abroad", req1, b))
    IN IF o.kind = "hang" THEN noCache("obedient", matched, c1, TRUE, FALSE, NilMsg, dc, ic)
       ELSE IF MsgExtractAnswerIdx(o.msg) # 0 /\ o.kind = "ok"
            THEN cacheAndReply("obedient", matched, c1, domain, o.msg, TRANS_DIRECT, dc, ic)
       ELSE IF b.kind = "hang" THEN noCache("obedientRetry", matched, c2, TRUE, FALSE, NilMsg, dc, ic)
       ELSE IF b.kind = "err" THEN noCache("obedientRetry", matched, c2, FALSE, TRUE, NilMsg, dc, ic)
       ELSE IF MsgExtractAnswerIdx(b.msg) # 0
            THEN cacheAndReply("obedientRetry", matched, c2, domain, b.msg, TRANS_PROXY, dc, ic)
       ELSE noCache("obedientRetry", matched, c2, FALSE, FALSE, b.msg, dc, ic)

\* case matchObedient; o: the race on the obedient upstream, b: the retry on
\* the abroad upstream
caseMatchObedient(req, domain, matched, dc, ic, o, b) ==
    LET c1 == <<Contact("obedient", req, o)>>
        req1 == MsgSetECSWithAddr(req, DNS_SUBNET_LOCAL_IP)
        c2 == Append(c1, Contact("abroad", req1, b))
    IN IF o.kind = "hang" THEN noCache("obedient", matched, c1, TRUE, FALSE, NilMsg, dc, ic)
       ELSE IF MsgExtractAnswerIdx(o.msg) # 0 /\ o.kind = "ok"
            THEN cacheAndReply("obedient", matched, c1, domain, o.msg, TRANS_DIRECT, dc, ic)
       ELSE IF b.kind = "hang" THEN noCache("obedientRetry", matched, c2, TRUE, FALSE, NilMsg, dc, ic)
       ELSE IF b.kind = "err" THEN noCache("obedientRetry", matched, c2, FALSE, TRUE, NilMsg, dc, ic)
       ELSE noCache("obedientRetry", matched, c2, FALSE, FALSE, b.msg, dc, ic)

\* the transport of an address: ip.To4() != nil && _IP_MATCH_CHINESE_MAINLAND(ip)
transOf(ip) ==
    IF To4(ip) /\ IP_MATCH_CHINESE_MAINLAND(ip) THEN TRANS_DIRECT ELSE TRANS_PROXY

\* default (unknown domain); a: probe A's race (abroad, ECS = PROXY_IP, on a
\* copy of req), b: probe B's race (abroad, ECS = LOCAL_IP, on a copy),
\* o: the race on the obedient upstream
caseDefault(req, domain, matched, dc, ic, a, b, o) ==
    LET reqA == MsgSetECSWithAddr(req, DNS_SUBNET_PROXY_IP)
        reqB == MsgSetECSWithAddr(req, DNS_SUBNET_LOCAL_IP)
        c2 == <<Contact("abroad", reqA, Unread), Contact("abroad", reqB, b)>>
        cA == <<Contact("abroad", reqA, a), Contact("abroad", reqB, b)>>
        c3 == Append(c2, Contact("obedient", req, o))
        abroadQueryWithLocalSucceed ==
            /\ b.kind = "ok"
            /\ MsgExtractAnswerIdx(b.msg) # 0
            /\ b.msg.rcode = RcodeSuccess
    IN IF b.kind = "hang" THEN noCache("unknown", matched, c2, TRUE, FALSE, NilMsg, dc, ic)
       ELSE IF abroadQueryWithLocalSucceed
       THEN IF transOf(MsgExtractAnswer(b.msg).ip) = TRANS_DIRECT
            THEN IF o.kind = "hang"
                 THEN noCache("unknownDirect", matched, c3, TRUE, FALSE, NilMsg, dc, ic)
                 ELSE cacheAndReply("unknownDirect", matched, c3, domain,
                         IF o.kind = "ok" /\ MsgExtractAnswerIdx(o.msg) # 0 THEN o.msg ELSE b.msg,
                         TRANS_DIRECT, dc, ic)
            ELSE IF a.kind = "hang"
                 THEN noCache("unknownProxy", matched, cA, TRUE, FALSE, NilMsg, dc, ic)
                 ELSE cacheAndReply("unknownProxy", matched, cA, domain,
                         IF MsgExtractAnswerIdx(a.msg) # 0 THEN a.msg ELSE b.msg,
                         TRANS_PROXY, dc, ic)
       ELSE IF o.kind = "hang" THEN noCache("unknownFailed", matched, c3, TRUE, FALSE, NilMsg, dc, ic)
       ELSE IF o.kind = "err" THEN noCache("unknownFailed", matched, c3, FALSE, TRUE, NilMsg, dc, ic)
       ELSE IF MsgExtractAnswerIdx(o.msg) # 0
            THEN cacheAndReply("unknownFailed", matched, c3, domain, o.msg,
                               transOf(MsgExtractAnswer(o.msg).ip), dc, ic)
            ELSE noCache("unknownFailed", matched, c3, FALSE, FALSE, o.msg, dc, ic)

\* the literal suffix `.DHCP\ HOST.`; the escaped host label is one character here
DHCP_HOST_SUFFIX == <<".", "DHCP\\ HOST", ".">>

matchDomainObedientFirst(domain) ==
    IF MatchObedient(domain)
    THEN [gfw |-> FALSE, obedient |-> TRUE, calls |-> <<"MatchObedient">>]
    ELSE [gfw |-> MatchGFW(domain), obedient |-> FALSE,
          calls |-> <<"MatchObedient", "MatchGFW">>]

\* matchGfw = MatchGFW(domain); if !matchGfw { matchObedient = MatchObedient(domain) }
\* : the two flags and the matcher calls made
matchDomain(domain) ==
    IF MatchGFW(domain)
    THEN [gfw |-> TRUE, obedient |-> FALSE, calls |-> <<"MatchGFW">>]
    ELSE [gfw |-> FALSE, obedient |-> MatchObedient(domain),
          calls |-> <<"MatchGFW", "MatchObedient">>]

\* handleDnsRequest(w, req), given the caches and what the races it may run give
handleDnsRequest(req, dc, ic, a, b, o) ==
    LET quesFqdn == req.question[1].name
        domain == SubSeq(quesFqdn, 1, Len(quesFqdn) - 1)
        m == matchDomain(domain)
    IN IF HasSuffix(quesFqdn, DHCP_HOST_SUFFIX)
       THEN noCache("dhcp", <<>>, <<>>, FALSE, FALSE, MsgNewReplyFromReq(req, <<>>), dc, ic)
       ELSE IF domaincacheGet(dc, domain).ok
       THEN noCache("cached", <<>>, <<>>, FALSE, FALSE,
                    MsgNewReplyFromReq(req, <<domaincacheGet(dc, domain).v.ans>>), dc, ic)
       ELSE IF m.gfw THEN caseMatchGfw(req, domain, m.calls, dc, ic, a)
       ELSE IF m.obedient THEN caseMatchObedient(req, domain, m.calls, dc, ic, o, b)
       ELSE caseDefault(req, domain, m.calls, dc, ic, a, b, o)

writeMsgServfail(req, run) ==
    IF run.hung THEN <<>>
    ELSE IF run.err THEN <<Msg(req.hdr, RcodeServerFailure, req.question, <<>>, <<>>)>>
    ELSE <<run.reply>>

\* the end of handleDnsRequest: if err != nil { goto ERR }; w.WriteMsg(resp)
\* : the messages written to the client; run is what the classification did
\* (reply is its resp), and ERR only logs
writeMsg(req, run) ==
    IF run.hung \/ run.err THEN <<>> ELSE <<run.reply>>

(***************************************************************************)
(* The proxy front: handleProxyConn                                        *)
(***************************************************************************)

\* const ( AddrIPv4, AddrDomain, AddrIPv6 )
AddrIPv4 == "AddrIPv4"
AddrDomain == "AddrDomain"
AddrIPv6 == "AddrIPv6"

\* The target of a proxy request (req.Addr of SOCKS5, req.URL of HTTP): its
\* address type, its host text when it is an IP literal, its name when it is
\* a domain.
Addr(type, host, domain) == [type |-> type, host |-> host, domain |-> domain]

\* net.ParseIP(host)
ParseIP(host) ==
    IF \E x \in V4Addrs \cup V6Addrs : x.text = host
    THEN CHOOSE x \in V4Addrs \cup V6Addrs : x.text = host
    ELSE NilIP

\* a setRedirect that tags the host by the family of the address
socks5SetRedirectTyped(addr, ip) ==
    Addr(IF To4(ip) THEN AddrIPv4 ELSE AddrIPv6, IPString(ip), <<>>)

\* (*socks5Request).setRedirect(ip): both branches set AddrIPv4
socks5SetRedirect(addr, ip) ==
    LET addrType == IF To4(ip) THEN AddrIPv4 ELSE AddrIPv4
    IN Addr(addrType, IPString(ip), <<>>)

\* (*httpRequest).setRedirect(_): nothing
httpSetRedirect(addr, ip) == addr

\* reqer.setRedirect(ip), by the kind of request
setRedirect(kind, addr, ip) ==
    IF kind = "socks5" THEN socks5SetRedirect(addr, ip) ELSE httpSetRedirect(addr, ip)

\* the relays, and servers[trans]
serverProxy == "serverProxy"
serverDirect == "serverDirect"
NoServer == "none"
servers(trans) == IF trans = TRANS_PROXY THEN serverProxy ELSE serverDirect

\* (*dnsTransport).legallySpawnQuery(domain, qtype, ecsAddr...): the request
\* it builds; ecsAddr is a sequence of at most one address
legallySpawnQuery(domain, qtype, ecsAddr) ==
    LET q == [name |-> Fqdn(domain), qtype |-> qtype]
        req == Msg(QueryHdr(q), RcodeSuccess, <<q>>, <<>>, <<>>)
    IN IF ecsAddr # <<>> THEN MsgSetECSWithAddr(req, ecsAddr[1]) ELSE req

\* What one run of handleProxyConn did from the parsed request on.  hung: it
\* never returned; err: it returned an error; server: the relay given to
\* setProxyServer before exec (NoServer when there was none); redirects: the
\* addresses of its setRedirect calls; addr: the request's target at exec.
ProxyHandled(branch, contacts, hung, err, server, redirects, addr, dc, ic, dcAdd, icAdd) ==
    [branch |-> branch, contacts |-> contacts, hung |-> hung, err |-> err,
     server |-> server, redirects |-> redirects, addr |-> addr,
     dc |-> dc, ic |-> ic, dcAdd |-> dcAdd, icAdd |-> icAdd]

\* a path that ends without a cache call
proxyNoCache(branch, contacts, hung, err, server, redirects, addr, dc, ic) ==
    ProxyHandled(branch, contacts, hung, err, server, redirects, addr, dc, ic, <<>>, <<>>)

\* _DEFAULT_DOMAINCACHE.Add(domain, ans, trans); _DEFAULT_IPCACHE.Add(ip.String(), trans);
\* return servers[trans]
proxyCache(branch, contacts, redirects, addr, domain, e, trans, dc, ic) ==
    LET add == domaincacheAdd(dc, domain, e.ans, trans)
    IN ProxyHandled(branch, contacts, FALSE, FALSE, servers(trans), redirects, addr,
                    add.cache, ipcacheAdd(ic, IPString(e.ip), trans),
                    <<[domain |-> domain, ans |-> add.answer, trans |-> trans]>>,
                    <<[ip |-> IPString(e.ip), trans |-> trans]>>)

proxyCaseIPNoInsert(kind, addr, dc, ic) ==
    LET host == addr.host
        ip == ParseIP(host)
        trans == IF To4(ip) /\ IP_MATCH_CHINESE_MAINLAND(ip) THEN TRANS_DIRECT ELSE TRANS_PROXY
    IN IF ipcacheGet(ic, host).ok
       THEN proxyNoCache("ipHit", <<>>, FALSE, FALSE, servers(ipcacheGet(ic, host).v),
                         <<>>, addr, dc, ic)
       ELSE proxyNoCache("ipMiss", <<>>, FALSE, FALSE, servers(trans), <<>>, addr, dc, ic)

\* case AddrIPv4, AddrIPv6
proxyCaseIP(kind, addr, dc, ic) ==
    LET host == addr.host
        ip == ParseIP(host)
        trans == IF To4(ip) /\ IP_MATCH_CHINESE_MAINLAND(ip) THEN TRANS_DIRECT ELSE TRANS_PROXY
    IN IF ipcacheGet(ic, host).ok
       THEN proxyNoCache("ipHit", <<>>, FALSE, FALSE, servers(ipcacheGet(ic, host).v),
                         <<>>, addr, dc, ic)
       ELSE ProxyHandled("ipMiss", <<>>, FALSE, FALSE, servers(trans), <<>>, addr,
                         dc, ipcacheAdd(ic, host, trans),
                         <<>>, <<[ip |-> host, trans |-> trans]>>)

proxyCaseCachedAlwaysRedirect(kind, addr, dc, ic) ==
    LET item == domaincacheGet(dc, addr.domain).v
    IN proxyNoCache("cached", <<>>, FALSE, FALSE, servers(item.trans),
                    <<item.ans.addr>>, setRedirect(kind, addr, item.ans.addr), dc, ic)

\* case AddrDomain, the domain has a domain-cache entry
proxyCaseCached(kind, addr, dc, ic) ==
    LET item == domaincacheGet(dc, addr.domain).v
    IN IF item.trans = TRANS_DIRECT
       THEN IF item.ans.rrtype \in {"A", "AAAA"}
            THEN proxyNoCache("cached", <<>>, FALSE, FALSE, servers(item.trans),
                              <<item.ans.addr>>, setRedirect(kind, addr, item.ans.addr), dc, ic)
            ELSE proxyNoCache("cached", <<>>, FALSE, TRUE, NoServer, <<>>, addr, dc, ic)
       ELSE proxyNoCache("cached", <<>>, FALSE, FALSE, servers(item.trans), <<>>, addr, dc, ic)

\* case matchObedient; o: the race on the obedient upstream
proxyCaseObedient(kind, addr, dc, ic, o) ==
    LET domain == addr.domain
        c1 == <<Contact("obedient", legallySpawnQuery(domain, "A", <<>>), o)>>
        e == MsgExtractAnswer(o.msg)
    IN IF o.kind = "hang"
       THEN proxyNoCache("obedient", c1, TRUE, FALSE, NoServer, <<>>, addr, dc, ic)
       ELSE IF o.kind = "ok" /\ MsgExtractAnswerIdx(o.msg) # 0
       THEN LET r == proxyCache("obedient", c1, <<e.ip>>, setRedirect(kind, addr, e.ip),
                                domain, e, TRANS_DIRECT, dc, ic)
            IN [r EXCEPT !.server = serverDirect]
       ELSE proxyNoCache("obedient", c1, FALSE, FALSE, serverDirect, <<>>, addr, dc, ic)

\* default (unknown domain); b: the race on the abroad upstream with
\* ECS = LOCAL_IP, o: the race on the obedient upstream
proxyCaseDefault(kind, addr, dc, ic, b, o) ==
    LET domain == addr.domain
        c1 == <<Contact("abroad", legallySpawnQuery(domain, "A", <<DNS_SUBNET_LOCAL_IP>>), b)>>
        c2 == Append(c1, Contact("obedient", legallySpawnQuery(domain, "A", <<>>), o))
        eb == MsgExtractAnswer(b.msg)
        eo == MsgExtractAnswer(o.msg)
        oGave == o.kind = "ok" /\ MsgExtractAnswerIdx(o.msg) # 0
    IN IF b.kind = "hang"
       THEN proxyNoCache("unknown", c1, TRUE, FALSE, NoServer, <<>>, addr, dc, ic)
       ELSE IF b.kind = "ok" /\ MsgExtractAnswerIdx(b.msg) # 0
       THEN IF To4(eb.ip) /\ IP_MATCH_CHINESE_MAINLAND(eb.ip)
            THEN IF o.kind = "hang"
                 THEN proxyNoCache("unknownDirect", c2, TRUE, FALSE, NoServer, <<>>, addr, dc, ic)
                 ELSE LET e == IF oGave THEN eo ELSE eb
                      IN proxyCache("unknownDirect", c2, <<e.ip>>, setRedirect(kind, addr, e.ip),
                                    domain, e, TRANS_DIRECT, dc, ic)
            ELSE proxyCache("unknownProxy", c1, <<>>, addr, domain, eb, TRANS_PROXY, dc, ic)
       ELSE IF o.kind = "hang"
       THEN proxyNoCache("unknownFailed", c2, TRUE, FALSE, NoServer, <<>>, addr, dc, ic)
       ELSE IF oGave
       THEN IF To4(eo.ip) /\ IP_MATCH_CHINESE_MAINLAND(eo.ip)
            THEN proxyCache("unknownFailed", c2, <<eo.ip>>, setRedirect(kind, addr, eo.ip),
                            domain, eo, TRANS_DIRECT, dc, ic)
            ELSE proxyCache("unknownFailed", c2, <<>>, addr, domain, eo, TRANS_PROXY, dc, ic)
       ELSE proxyNoCache("unknownFailed", c2, FALSE, FALSE, serverProxy, <<>>, addr, dc, ic)

handleProxyConnObedientFirst(kind, addr, dc, ic, b, o) ==
    IF addr.type \in {AddrIPv4, AddrIPv6} THEN proxyCaseIP(kind, addr, dc, ic)
    ELSE IF domaincacheGet(dc, addr.domain).ok THEN proxyCaseCached(kind, addr, dc, ic)
    ELSE IF MatchObedient(addr.domain) THEN proxyCaseObedient(kind, addr, dc, ic, o)
    ELSE IF MatchGFW(addr.domain)
    THEN proxyNoCache("gfw", <<>>, FALSE, FALSE, serverProxy, <<>>, addr, dc, ic)
    ELSE proxyCaseDefault(kind, addr, dc, ic, b, o)

\* handleProxyConn from the parsed request on: kind is "socks5" or "http",
\* addr its target
handleProxyConn(kind, addr, dc, ic, b, o) ==
    IF addr.type \in {AddrIPv4, AddrIPv6} THEN proxyCaseIP(kind, addr, dc, ic)
    ELSE IF domaincacheGet(dc, addr.domain).ok THEN proxyCaseCached(kind, addr, dc, ic)
    ELSE IF MatchGFW(addr.domain)
    THEN proxyNoCache("gfw", <<>>, FALSE, FALSE, serverProxy, <<>>, addr, dc, ic)
    ELSE IF MatchObedient(addr.domain) THEN proxyCaseObedient(kind, addr, dc, ic, o)
    ELSE proxyCaseDefault(kind, addr, dc, ic, b, o)

(***************************************************************************)
(* The package globals and the startup gate                                *)
(***************************************************************************)

\* the globals InitGlobals sets
Globals ==
    {"_DEFAULT_IPCACHE", "_DEFAULT_DOMAINCACHE", "_DEFAULT_DOMAIN_MATCHER",
     "_IP_MATCH_CHINESE_MAINLAND", "_DNS_SUBNET_LOCAL_IP", "_DNS_SUBNET_PROXY_IP",
     "_DNSSTRANSPORT_OBEDIENT", "_DNSSTRANSPORT_ABROAD"}

\* the globals the function given to v.Do compares with nil
\* (_DNS_SUBNET_LOCAL_IP stands there twice)
validateChecks ==
    {"_DEFAULT_IPCACHE", "_DEFAULT_DOMAINCACHE", "_DEFAULT_DOMAIN_MATCHER",
     "_IP_MATCH_CHINESE_MAINLAND", "_DNS_SUBNET_LOCAL_IP", "_DNS_SUBNET_LOCAL_IP",
     "_DNSSTRANSPORT_OBEDIENT", "_DNSSTRANSPORT_ABROAD"}

\* a validator without sync.Once: the conjunction is evaluated at every call
validateEveryTime(v, g) ==
    [done |-> TRUE, ok |-> \A d \in validateChecks : g[d]]

\* (*globalsValidator).validate(): the validator after the call; the call
\* returns its ok field
validate(v, g) ==
    IF v.done THEN v
    ELSE [done |-> TRUE, ok |-> \A d \in validateChecks : g[d]]

Fronts == {"dns", "proxy"}

\* the package before InitGlobals: every global has its zero value
GateStart ==
    /\ globals = [d \in Globals |-> FALSE]
    /\ validator = [done |-> FALSE, ok |-> FALSE]
    /\ fronts = [f \in Fronts |-> "idle"]

\* the package as _main leaves it: every global set, both fronts serving
GateOpen ==
    /\ globals = [d \in Globals |-> TRUE]
    /\ validator = [done |-> TRUE, ok |-> TRUE]
    /\ fronts = [f \in Fronts |-> "listening"]

\* InitGlobals(...) with any arguments, nil or not
InitGlobals ==
    /\ \E g \in [Globals -> BOOLEAN] : globals' = g
    /\ UNCHANGED <<validator, fronts, raceVars, cacheVars, last, ops, procVars>>

\* a front is asked to serve: it returns the error when validate() is false
\* and goes on to listen otherwise
Serve(f) ==
    /\ fronts[f] = "idle"
    /\ validator' = validate(validator, globals)
    /\ fronts' = [fronts EXCEPT ![f] = IF validate(validator, globals).ok
                                       THEN "listening" ELSE "refused"]
    /\ UNCHANGED <<globals, raceVars, cacheVars, last, ops, procVars>>

\* ServeDNS(laddr)
ServeDNS == Serve("dns")

\* ServeProxy(laddr, proxy, direct)
ServeProxy == Serve("proxy")

\* ---- the head of handleProxyConn: prefetch, sniff, and the wrapped reads ----

\* A client's stream has at most this many bytes.
MaxStream == 4

\* The request parser reads with buffers of at most this many bytes.
MaxBuf == 2

\* gosocks5.Ver5
Ver5 == 5

\* the bytes a client sends: 0x04, 0x05, 'G'
Bytes == {4, 5, 71}

Streams == UNION {[1..n -> Bytes] : n \in 0..MaxStream}

Min(a, b) == IF a < b THEN a ELSE b

sniffSocks4Too(b0) == IF b0 \in {4, Ver5} THEN "socks5" ELSE "http"

\* if b[0] == gosocks5.Ver5 {...} else {...}
sniff(b0) == IF b0 = Ver5 THEN "socks5" ELSE "http"

\* the connLeftAppendReader before newConnLeftAppendReader
NoReader == [wrapped |-> FALSE, r |-> <<>>, reof |-> FALSE, conn |-> <<>>]

NoRead == [n |-> 0, err |-> Nil]

\* no connection's stream is followed
ConnBenchOff ==
    /\ stream = <<>>
    /\ cc = NoReader
    /\ got = <<>>
    /\ rd = NoRead
    /\ proto = Nil

\* One Read: the reader after it, the bytes put into b, and err.
ReadResult(c, data, err) == [cc |-> c, data |-> data, err |-> err]

\* a reader that passes the prefix's io.EOF on
connLeftAppendReadEof(c, k) ==
    IF ~c.reof
    THEN IF c.r = <<>>
         THEN {ReadResult([c EXCEPT !.reof = TRUE], <<>>, "EOF")}
         ELSE {ReadResult([c EXCEPT !.r = SubSeq(c.r, Min(k, Len(c.r)) + 1, Len(c.r))],
                          SubSeq(c.r, 1, Min(k, Len(c.r))), Nil)}
    ELSE IF k = 0 THEN {ReadResult(c, <<>>, Nil)}
    ELSE IF c.conn = <<>> THEN {ReadResult(c, <<>>, "EOF")}
    ELSE {ReadResult([c EXCEPT !.conn = SubSeq(c.conn, n + 1, Len(c.conn))],
                     SubSeq(c.conn, 1, n), Nil) : n \in 1..Min(k, Len(c.conn))}

\* (*connLeftAppendReader).Read(b) with len(b) = k: what it may return.  The
\* prefix is a bytes.Reader (it copies what fits, and gives io.EOF once it is
\* empty); the connection gives any number of the bytes that fit, and io.EOF
\* when the client has sent everything.
connLeftAppendRead(c, k) ==
    IF ~c.reof
    THEN IF c.r = <<>>
         THEN {ReadResult([c EXCEPT !.reof = TRUE], <<>>, Nil)}
         ELSE {ReadResult([c EXCEPT !.r = SubSeq(c.r, Min(k, Len(c.r)) + 1, Len(c.r))],
                          SubSeq(c.r, 1, Min(k, Len(c.r))), Nil)}
    ELSE IF k = 0 THEN {ReadResult(c, <<>>, Nil)}
    ELSE IF c.conn = <<>> THEN {ReadResult(c, <<>>, "EOF")}
    ELSE {ReadResult([c EXCEPT !.conn = SubSeq(c.conn, n + 1, Len(c.conn))],
                     SubSeq(c.conn, 1, n), Nil) : n \in 1..Min(k, Len(c.conn))}

connFrame == <<raceVars, cacheVars, last, ops, gateVars, bootVars, joinVars, obVars,
               msgVars, matchVars>>

\* n, err := io.ReadAtLeast(conn, b, 2): a client that sent one byte only
\* gives io.ErrUnexpectedEOF and the handler returns the error; otherwise the
\* n bytes read are put in front of the connection and b[0] selects the
\* protocol (b[0] is 0 when nothing was read)
Prefetch ==
    /\ ~cc.wrapped
    /\ proto = Nil
    /\ IF Len(stream) = 1
       THEN /\ proto' = "failed"
            /\ cc' = cc
       ELSE \E n \in (IF stream = <<>> THEN {0} ELSE 2..Len(stream)) :
              /\ cc' = [wrapped |-> TRUE, r |-> SubSeq(stream, 1, n), reof |-> FALSE,
                        conn |-> SubSeq(stream, n + 1, Len(stream))]
              /\ proto' = sniff(IF n = 0 THEN 0 ELSE stream[1])
    /\ UNCHANGED <<stream, got, rd, connFrame>>

\* gosocks5.ReadRequest(conn) or http.ReadRequest(bufio.NewReader(conn)): one
\* Read of the wrapped connection
ParserRead ==
    /\ cc.wrapped
    /\ rd.err = Nil
    /\ \E k \in 0..MaxBuf :
          \E res \in connLeftAppendRead(cc, k) :
              /\ cc' = res.cc
              /\ got' = got \o res.data
              /\ rd' = [n |-> Len(res.data), err |-> res.err]
    /\ UNCHANGED <<stream, proto, connFrame>>

ConnNext == Prefetch \/ ParserRead

PureOff == MsgBenchOff /\ MatchBenchOff /\ ConnBenchOff

(***************************************************************************)
(* Case matchObedient of handleDnsRequest and the request its race shares  *)
(***************************************************************************)

\* the race responses that carry an address record (MsgExtractAnswer gives a
\* non-nil answer); the other responses have none
RaceAnswers == {"r1"}

obFrame == <<cacheVars, last, ops, gateVars, bootVars, joinVars, pureVars>>

\* if ans, ip := MsgExtractAnswer(resp); ans != nil && err == nil {...}:
\* the obedient race returned an address; it is cached and returned
ObedientAnswered ==
    /\ obPc = "race"
    /\ racePc = "returned"
    /\ raceErr = Nil /\ raceResp \in RaceAnswers
    /\ obPc' = "done"
    /\ UNCHANGED <<raceVars, reqEcs, wire, obFrame>>

\* else { MsgSetECSWithAddr(req, _DNS_SUBNET_LOCAL_IP); ... }: the obedient
\* race returned an error or a response without address, and the handler
\* sets the ECS option of the very req the race's probes were given
FallbackSetECS ==
    /\ obPc = "race"
    /\ racePc = "returned"
    /\ ~(raceErr = Nil /\ raceResp \in RaceAnswers)
    /\ reqEcs' = DNS_SUBNET_LOCAL_IP
    /\ obPc' = "abroad"
    /\ UNCHANGED <<raceVars, wire, obFrame>>

\* resp, err = _DNSSTRANSPORT_ABROAD.legallySpawnExchange(req) returns
AbroadReturns ==
    /\ obPc = "abroad"
    /\ obPc' = "done"
    /\ UNCHANGED <<raceVars, reqEcs, wire, obFrame>>

ObedientNext ==
    \/ ObedientAnswered
    \/ FallbackSetECS
    \/ AbroadReturns
    \/ RaceNext

(***************************************************************************)
(* The process: _main, the two fronts' goroutines, listeners and handlers  *)
(***************************************************************************)

\* How many connections and queries the process is followed for.
MaxConns == 2

\* for _, _net := range [...]string{"udp", "tcp"}
ListenerNetsUdpOnly == {"udp"}

ListenerNets == {"udp", "tcp"}

\* the value a front's goroutine of _main sends on e
sentOnEAsReturned(err) == err

\* if err := dnsproxy.ServeX(...); err != nil { e <- err } else { e <- errors.New(...) }
sentOnE(err) == IF err # Nil THEN err ELSE "returned without error"

\* main(): if err := _main(); err != nil { defer os.Exit(1) ... }
exitCodeOf(err) == IF err # Nil THEN 1 ELSE 0

\* what the end of a handler does to the process
afterHandlerFatal(outcome) == IF outcome \in {"panic", "failed"} THEN "crashed" ELSE "recv"

\* a handler that returns, with or without an error, is only logged; a panic
\* in its goroutine ends the process
afterHandler(outcome) == IF outcome = "panic" THEN "crashed" ELSE "recv"

\* how a handler may end: handleProxyConn on a nil connection panics at
\* conn.Close / conn.Read; any other handler returns nil or an error
HandlerOutcomes(h) ==
    IF h.front = "proxy" /\ h.conn = Nil THEN {"panic"} ELSE {"ok", "failed"}

\* the process as the fronts' state machine sees it: both fronts serving
BootServing ==
    /\ mainPc = "recv"
    /\ exitCode = 0
    /\ proxyFront = [pc |-> "accept", err |-> Nil]
    /\ dnsFront = [pc |-> "recv", err |-> Nil,
                   listeners |-> [n \in ListenerNets |-> [pc |-> "serving", err |-> Nil]]]
    /\ handlers = <<>>

\* _main after InitGlobals, before its two go statements
BootStart ==
    /\ mainPc = "start"
    /\ exitCode = 0
    /\ proxyFront = [pc |-> "unspawned", err |-> Nil]
    /\ dnsFront = [pc |-> "unspawned", err |-> Nil,
                   listeners |-> [n \in ListenerNets |-> [pc |-> "unspawned", err |-> Nil]]]
    /\ handlers = <<>>

bootFrame == <<raceVars, cacheVars, last, ops, gateVars, joinVars, obVars, pureVars>>

\* _main: e := make(chan error); go func() {...}(); go func() {...}(); return <-e
MainSpawns ==
    /\ mainPc = "start"
    /\ mainPc' = "recv"
    /\ proxyFront' = [proxyFront EXCEPT !.pc = "addNode"]
    /\ dnsFront' = [dnsFront EXCEPT !.pc = "serveDNS"]
    /\ UNCHANGED <<exitCode, handlers, bootFrame>>

\* proxy.AddProxyNodeString(...) in the proxy goroutine: on an error the
\* goroutine sends it on e and then goes on
ProxyAddNode ==
    /\ mainPc = "recv"
    /\ proxyFront.pc = "addNode"
    /\ \E err \in {Nil, "nodeErr"} :
          proxyFront' = [pc |-> IF err # Nil THEN "sendNodeErr" ELSE "listen", err |-> err]
    /\ UNCHANGED <<mainPc, exitCode, dnsFront, handlers, bootFrame>>

\* ServeProxy -> serveProxy: net.Listen("tcp", laddr) fails and ServeProxy
\* returns the error, or succeeds and the accept loop starts
ProxyListen ==
    /\ mainPc = "recv"
    /\ proxyFront.pc = "listen"
    /\ \E err \in {Nil, "listenErr"} :
          proxyFront' = [pc |-> IF err # Nil THEN "returned" ELSE "accept", err |-> err]
    /\ UNCHANGED <<mainPc, exitCode, dnsFront, handlers, bootFrame>>

\* one round of the accept loop: conn, err := l.Accept(); if err != nil
\* { glog.Error(err) }; go func(conn net.Conn) {...}(conn)
ProxyAccept ==
    /\ mainPc = "recv"
    /\ proxyFront.pc = "accept"
    /\ Len(handlers) < MaxConns
    /\ \E conn \in {"conn", Nil} :
          handlers' = Append(handlers, [front |-> "proxy", conn |-> conn, pc |-> "running"])
    /\ UNCHANGED <<mainPc, exitCode, proxyFront, dnsFront, bootFrame>>

\* ServeDNS -> serveDNS: one goroutine per network runs ListenAndServe
DnsServe ==
    /\ mainPc = "recv"
    /\ dnsFront.pc = "serveDNS"
    /\ dnsFront' = [pc |-> "recv", err |-> Nil,
                    listeners |-> [n \in ListenerNets |-> [pc |-> "serving", err |-> Nil]]]
    /\ UNCHANGED <<mainPc, exitCode, proxyFront, handlers, bootFrame>>

\* a serving listener hands a query to handleDnsRequest in a new goroutine
DnsAccept ==
    /\ mainPc = "recv"
    /\ \E n \in ListenerNets : dnsFront.listeners[n].pc = "serving"
    /\ Len(handlers) < MaxConns
    /\ handlers' = Append(handlers, [front |-> "dns", conn |-> "conn", pc |-> "running"])
    /\ UNCHANGED <<mainPc, exitCode, proxyFront, dnsFront, bootFrame>>

\* srv.ListenAndServe() returns in the listener of network n
ListenerReturns(n) ==
    /\ mainPc = "recv"
    /\ dnsFront.listeners[n].pc = "serving"
    /\ \E err \in {Nil, "listenErr"} :
          dnsFront' = [dnsFront EXCEPT !.listeners[n] = [pc |-> "returned", err |-> err]]
    /\ UNCHANGED <<mainPc, exitCode, proxyFront, handlers, bootFrame>>

\* e <- srv.ListenAndServe() meets return <-e of serveDNS (unbuffered channel)
ListenerSends(n) ==
    /\ mainPc = "recv"
    /\ dnsFront.listeners[n].pc = "returned"
    /\ dnsFront.pc = "recv"
    /\ dnsFront' = [dnsFront EXCEPT !.pc = "returned", !.err = dnsFront.listeners[n].err,
                                    !.listeners[n].pc = "sent"]
    /\ UNCHANGED <<mainPc, exitCode, proxyFront, handlers, bootFrame>>

\* a send on e of _main meets return <-e; main() then exits
MainReceives(err) ==
    /\ mainPc' = "exited"
    /\ exitCode' = exitCodeOf(err)

\* e <- errors.WithStack(err) after AddProxyNodeString failed
ProxySendsNodeErr ==
    /\ mainPc = "recv"
    /\ proxyFront.pc = "sendNodeErr"
    /\ MainReceives(proxyFront.err)
    /\ proxyFront' = [proxyFront EXCEPT !.pc = "listen"]
    /\ UNCHANGED <<dnsFront, handlers, bootFrame>>

\* ServeProxy returned: its goroutine sends on e
ProxySends ==
    /\ mainPc = "recv"
    /\ proxyFront.pc = "returned"
    /\ MainReceives(sentOnE(proxyFront.err))
    /\ proxyFront' = [proxyFront EXCEPT !.pc = "done"]
    /\ UNCHANGED <<dnsFront, handlers, bootFrame>>

\* ServeDNS returned: its goroutine sends on e
DnsSends ==
    /\ mainPc = "recv"
    /\ dnsFront.pc = "returned"
    /\ MainReceives(sentOnE(dnsFront.err))
    /\ dnsFront' = [dnsFront EXCEPT !.pc = "done"]
    /\ UNCHANGED <<proxyFront, handlers, bootFrame>>

\* a handler ends
HandlerEnds(i) ==
    /\ mainPc = "recv"
    /\ handlers[i].pc = "running"
    /\ \E outcome \in HandlerOutcomes(handlers[i]) :
          /\ handlers' = [handlers EXCEPT ![i].pc = outcome]
          /\ mainPc' = afterHandler(outcome)
          /\ exitCode' = IF afterHandler(outcome) = "crashed" THEN 2 ELSE exitCode
    /\ UNCHANGED <<proxyFront, dnsFront, bootFrame>>

BootNext ==
    \/ MainSpawns
    \/ ProxyAddNode
    \/ ProxySendsNodeErr
    \/ ProxyListen
    \/ ProxyAccept
    \/ ProxySends
    \/ DnsServe
    \/ DnsAccept
    \/ \E n \in ListenerNets : ListenerReturns(n)
    \/ \E n \in ListenerNets : ListenerSends(n)
    \/ DnsSends
    \/ \E i \in 1..Len(handlers) : HandlerEnds(i)

(***************************************************************************)
(* The fronts as a state machine over the shared caches                    *)
(***************************************************************************)

\* The domains clients ask for: under a GFW rule, under an obedient rule,
\* under both, under neither.
Domains == {<<"w", ".", "g">>, <<"o">>, <<"b">>, <<"u">>}
QuestionNames == {Fqdn(d) : d \in Domains} \cup {<<"h">> \o DHCP_HOST_SUFFIX}
Questions == {[name |-> n, qtype |-> t] : n \in QuestionNames, t \in {"A", "AAAA"}}

\* the query message of a client
Request(q) == Msg(ClientHdr(q), RcodeSuccess, <<q>>, <<>>, <<>>)

\* the owner name of a record that a CNAME points to
Alias == <<"c", ".">>

\* What an upstream may answer to question q.
Upstream(q) ==
    LET addrs == IF q.qtype = "A" THEN V4Addrs ELSE V6Addrs
        one == IF q.qtype = "A" THEN CN1 ELSE V61
        h == ResponseHdr(q)
    IN {Msg(h, RcodeSuccess, <<q>>, <<>>, <<>>), Msg(h, RcodeNameError, <<q>>, <<>>, <<>>)}
       \cup {Msg(h, RcodeSuccess, <<q>>, <<RR(q.qtype, q.name, x)>>, <<>>) : x \in addrs}
       \cup {Msg(h, RcodeSuccess, <<q>>, <<RR("CNAME", q.name, NilIP), RR(q.qtype, Alias, one)>>, <<>>),
             Msg(h, RcodeServerFailure, <<q>>, <<RR(q.qtype, q.name, one)>>, <<>>)}

RaceResults(q) == {RaceOk(m) : m \in Upstream(q)} \cup {RaceErr, RaceHang}

NoOp == [op |-> "none"]

\* The fronts are followed for this many operations.
MaxOps == 2

\* What the races of one query may give: x for b, y for a and for o.  The
\* handler waits for at most two races: b (abroad, ECS = LOCAL_IP) and one of
\* a (abroad, ECS = PROXY_IP) and o (obedient) on the unknown-domain path,
\* o and b on the obedient path, a on the GFW path; so two draws give every
\* outcome.
QueryInputs ==
    UNION {{[q |-> q, x |-> x, y |-> y] : x \in RaceResults(q), y \in RaceResults(q)} :
             q \in Questions}

\* One DNS query, handled from arrival to the end of its handler.
DnsQuery ==
    /\ ops < MaxOps
    /\ \E h \in {[question |-> i.q,
                  run |-> handleDnsRequest(Request(i.q), domaincache, ipcache, i.y, i.x, i.y)] :
                    i \in QueryInputs} :
        /\ domaincache' = h.run.dc
        /\ ipcache' = h.run.ic
        /\ last' = [op |-> "dns", question |-> h.question, branch |-> h.run.branch,
                    matched |-> h.run.matched, contacts |-> h.run.contacts,
                    hung |-> h.run.hung, err |-> h.run.err, reply |-> h.run.reply,
                    written |-> writeMsg(Request(h.question), h.run),
                    dcAdd |-> h.run.dcAdd, icAdd |-> h.run.icAdd]
    /\ ops' = ops + 1
    /\ UNCHANGED <<raceVars, gateVars, procVars>>

\* The targets proxy clients ask for: IP literals and the domains.
ProxyTargets ==
    {Addr(AddrIPv4, IPString(x), <<>>) : x \in {CN1, FR1}}
        \cup {Addr(AddrIPv6, IPString(x), <<>>) : x \in V6Addrs}
        \cup {Addr(AddrDomain, "", d) : d \in Domains}

\* the two wire protocols of the proxy front
RequestKinds == {"socks5", "http"}

\* the question of legallySpawnQuery(domain, dns.TypeA)
QuestionA(domain) == [name |-> Fqdn(domain), qtype |-> "A"]

\* A proxy request and what the races its handler may run give: x for the
\* abroad race, y for the obedient race (no race for an IP literal).
ProxyInputs ==
    UNION {{[kind |-> k, addr |-> t, x |-> x, y |-> y] :
                x \in (IF t.type = AddrDomain THEN RaceResults(QuestionA(t.domain)) ELSE {RaceHang}),
                y \in (IF t.type = AddrDomain THEN RaceResults(QuestionA(t.domain)) ELSE {RaceHang})} :
             k \in RequestKinds, t \in ProxyTargets}

\* One proxy connection, handled from its parsed request to exec or return.
ProxyConn ==
    /\ ops < MaxOps
    /\ \E h \in {[kind |-> i.kind, target |-> i.addr,
                  run |-> handleProxyConn(i.kind, i.addr, domaincache, ipcache, i.x, i.y)] :
                    i \in ProxyInputs} :
        /\ domaincache' = h.run.dc
        /\ ipcache' = h.run.ic
        /\ last' = [op |-> "proxy", kind |-> h.kind, target |-> h.target,
                    branch |-> h.run.branch, contacts |-> h.run.contacts,
                    hung |-> h.run.hung, err |-> h.run.err, server |-> h.run.server,
                    redirects |-> h.run.redirects, addr |-> h.run.addr,
                    dcAdd |-> h.run.dcAdd, icAdd |-> h.run.icAdd]
    /\ ops' = ops + 1
    /\ UNCHANGED <<raceVars, gateVars, procVars>>

\* the part of cache c without key k
Without(c, k) == [x \in DOMAIN c \ {k} |-> c[x]]

\* an entry of the IP cache reaches its expiration
ExpireIp ==
    \E k \in DOMAIN ipcache :
        /\ ops < MaxOps
        /\ ipcache' = Without(ipcache, k)
        /\ last' = [op |-> "expire"]
        /\ ops' = ops + 1
        /\ UNCHANGED <<domaincache, raceVars, gateVars, procVars>>

\* an entry of the domain cache reaches its expiration
ExpireDomain ==
    \E k \in DOMAIN domaincache :
        /\ ops < MaxOps
        /\ domaincache' = Without(domaincache, k)
        /\ last' = [op |-> "expire"]
        /\ ops' = ops + 1
        /\ UNCHANGED <<ipcache, raceVars, gateVars, procVars>>

Init ==
    /\ exchange = [i \in Probes |-> [kind |-> "hang", val |-> Nil]]
    /\ RaceStart
    /\ ipcache = <<>>
    /\ domaincache = <<>>
    /\ last = NoOp
    /\ ops = 0
    /\ GateOpen
    /\ BootServing
    /\ JoinOff
    /\ ReqStart
    /\ PureOff

\* The keys and values callers hand to the caches.
IpKeys == {IPString(x) : x \in {CN1, FR1, V61}} \cup {""}
DomainKeys == {<<"o">>, <<"u">>, <<>>}
Answers == {RR("A", <<"o", ".">>, CN1), RR("A", Alias, FR1)}
Transports == {TRANS_DIRECT, TRANS_PROXY}

\* a caller runs _DEFAULT_IPCACHE.Add(ip, t)
IpcacheAdd ==
    \E ip \in IpKeys, t \in Transports :
        /\ ops < MaxOps
        /\ ipcache' = ipcacheAdd(ipcache, ip, t)
        /\ last' = [op |-> "ipcacheAdd", key |-> ip, trans |-> t]
        /\ ops' = ops + 1
        /\ UNCHANGED <<domaincache, raceVars, gateVars, procVars>>

\* a caller runs _DEFAULT_DOMAINCACHE.Add(domain, answer, t)
DomaincacheAdd ==
    \E d \in DomainKeys, answer \in Answers, t \in Transports :
        /\ ops < MaxOps
        /\ domaincache' = domaincacheAdd(domaincache, d, answer, t).cache
        /\ last' = [op |-> "domaincacheAdd", key |-> d,
                    ans |-> domaincacheAdd(domaincache, d, answer, t).answer, trans |-> t]
        /\ ops' = ops + 1
        /\ UNCHANGED <<ipcache, raceVars, gateVars, procVars>>

CacheNext == IpcacheAdd \/ DomaincacheAdd \/ ExpireIp \/ ExpireDomain

SpecCache == Init /\ [][CacheNext]_vars

Next == DnsQuery \/ ProxyConn \/ ExpireIp \/ ExpireDomain

Spec == Init /\ [][Next]_vars

RaceInit ==
    /\ exchange \in {f \in [Probes -> UNION {ExchangeOutcomes(i) : i \in Probes}] :
                        \A i \in Probes : f[i] \in ExchangeOutcomes(i)}
    /\ RaceStart
    /\ ipcache = <<>>
    /\ domaincache = <<>>
    /\ last = NoOp
    /\ ops = 0
    /\ GateOpen
    /\ BootServing
    /\ JoinOff
    /\ ReqStart
    /\ PureOff

SpecRace == RaceInit /\ [][RaceNext]_vars

\* the package from its load on: InitGlobals and the two Serve calls
GateInit ==
    /\ exchange = [i \in Probes |-> [kind |-> "hang", val |-> Nil]]
    /\ RaceStart
    /\ ipcache = <<>>
    /\ domaincache = <<>>
    /\ last = NoOp
    /\ ops = 0
    /\ GateStart
    /\ BootStart
    /\ JoinOff
    /\ ReqStart
    /\ PureOff

GateNext == InitGlobals \/ ServeDNS \/ ServeProxy

SpecGate == GateInit /\ [][GateNext]_vars

\* the process from _main's go statements on
BootInit ==
    /\ exchange = [i \in Probes |-> [kind |-> "hang", val |-> Nil]]
    /\ RaceStart
    /\ ipcache = <<>>
    /\ domaincache = <<>>
    /\ last = NoOp
    /\ ops = 0
    /\ GateOpen
    /\ BootStart
    /\ JoinOff
    /\ ReqStart
    /\ PureOff

SpecBoot == BootInit /\ [][BootNext]_vars

\* one query for a domain of the obedient list: the obedient race, probe by
\* probe, and what the handler does with req after it
ObedientInit ==
    /\ exchange \in {f \in [Probes -> UNION {ExchangeOutcomes(i) : i \in Probes}] :
                        \A i \in Probes : f[i] \in ExchangeOutcomes(i)}
    /\ RaceStart
    /\ ipcache = <<>>
    /\ domaincache = <<>>
    /\ last = NoOp
    /\ ops = 0
    /\ GateOpen
    /\ BootServing
    /\ JoinOff
    /\ reqEcs = Nil
    /\ wire = {}
    /\ obPc = "race"
    /\ PureOff

SpecObedient == ObedientInit /\ [][ObedientNext]_vars

\* the bodies of Init that do not depend on what is followed
Quiet ==
    /\ exchange = [i \in Probes |-> [kind |-> "hang", val |-> Nil]]
    /\ RaceStart
    /\ ipcache = <<>>
    /\ domaincache = <<>>
    /\ last = NoOp
    /\ ops = 0
    /\ GateOpen
    /\ BootServing
    /\ JoinOff
    /\ ReqStart

\* a message of any followed shape, before any call on it
MsgInit ==
    /\ Quiet
    /\ benchMsg \in BenchMsgs
    /\ benchLog = <<>>
    /\ benchAns = NoAnswer
    /\ MatchBenchOff
    /\ ConnBenchOff

SpecMsg == MsgInit /\ [][MsgNext]_vars

\* a domain of any followed shape, before the matcher is asked
MatchInit ==
    /\ Quiet
    /\ matchIn \in MatchDomains
    /\ matchOut = NoMatch
    /\ MsgBenchOff
    /\ ConnBenchOff

SpecMatch == MatchInit /\ [][MatchNext]_vars

\* an accepted connection on which the client sends any followed stream
ConnInit ==
    /\ Quiet
    /\ stream \in Streams
    /\ cc = NoReader
    /\ got = <<>>
    /\ rd = NoRead
    /\ proto = Nil
    /\ MsgBenchOff
    /\ MatchBenchOff

SpecConn == ConnInit /\ [][ConnNext]_vars

\* one unknown-domain query: probe A's race is followed probe by probe, the
\* races of probe B and of the obedient upstream by their return only
JoinInit ==
    /\ exchange \in {f \in [Probes -> UNION {ExchangeOutcomes(i) : i \in Probes}] :
                        \A i \in Probes : f[i] \in ExchangeOutcomes(i)}
    /\ spawned = 0
    /\ probePc = [i \in Probes |-> "unspawned"]
    /\ failedTimes = 0
    /\ resp = <<>>
    /\ sent = <<>>
    /\ racePc = "idle"
    /\ raceResp = Nil
    /\ raceErr = Nil
    /\ ipcache = <<>>
    /\ domaincache = <<>>
    /\ last = NoOp
    /\ ops = 0
    /\ GateOpen
    /\ BootServing
    /\ joinPc = "start"
    /\ joinBranch = Nil
    /\ aPc = "unspawned"
    /\ await = <<>>
    /\ ReqStart
    /\ PureOff

SpecJoin == JoinInit /\ [][JoinNext]_vars

\* Every goroutine that can take a step eventually takes it; whether probe
\* B's race and the obedient race return is left open.
FairSpecJoin ==
    /\ SpecJoin
    /\ WF_vars(SpawnA)
    /\ WF_vars(AwaitA)
    /\ WF_vars(AReturns)
    /\ WF_vars(ASends)
    /\ WF_vars(CallerStep)
    /\ \A i \in Probes : WF_vars(ProbeStep(i))

\* Go schedules every runnable goroutine: a send that the receiver waits for
\* happens, and a started handler ends.  Whether a listener ever returns is
\* left open.
FairSpecBoot ==
    /\ SpecBoot
    /\ WF_vars(MainSpawns)
    /\ WF_vars(ProxySendsNodeErr)
    /\ WF_vars(ProxySends)
    /\ WF_vars(DnsSends)
    /\ WF_vars(DnsServe)
    /\ \A n \in ListenerNets : WF_vars(ListenerSends(n))

\* Go schedules every runnable goroutine: a probe or the caller that can take
\* a step eventually takes it.  A hanging Exchange is never runnable.
FairSpecRace ==
    /\ SpecRace
    /\ WF_vars(CallerStep)
    /\ \A i \in Probes : WF_vars(ProbeStep(i))

AllFail == \A i \in Probes : exchange[i].kind = "err"
AnySucceeds == \E i \in Probes : exchange[i].kind = "ok"

RECURSIVE FirstNonNil(_)
FirstNonNil(q) ==
    IF q = <<>> THEN Nil
    ELSE IF Head(q) # Nil THEN Head(q) ELSE FirstNonNil(Tail(q))

\* C1: if all three Exchange calls return an error, Race does not end blocked:
\* whenever no goroutine of the call can take a step any more, the caller
\* has returned a nil response and a non-nil error.
C1_AllFailReturnsError ==
    (AllFail /\ ~ENABLED RaceNext)
        => (racePc = "returned" /\ raceResp = Nil /\ raceErr # Nil)

\* C2: if at least one Exchange succeeds (the others fail or hang), Race
\* eventually returns, and it returns a nil error and the first successful
\* response delivered on the channel.
C2_FirstSuccessWins ==
    /\ [](AnySucceeds => <>(racePc = "returned"))
    /\ [](AnySucceeds /\ racePc = "returned"
            => raceErr = Nil /\ raceResp # Nil /\ raceResp = FirstNonNil(sent))

\* one probe hangs, one fails, one succeeds, and the caller has its response
C2_Witness ==
    /\ racePc = "returned"
    /\ \E i, j, k \in Probes :
          /\ exchange[i].kind = "hang"
          /\ exchange[j].kind = "err"
          /\ exchange[k].kind = "ok"
          /\ probePc[j] = "done"
          /\ raceResp = exchange[k].val

\* C3: after Add(k, v) with a non-empty key, Get(k) returns v, whatever the
\* cache held for k before (ipcache and domaincache).
C3_AddThenGet ==
    /\ (last.op = "ipcacheAdd" /\ last.key # "")
          => ipcacheGet(ipcache, last.key) = [v |-> last.trans, ok |-> TRUE]
    /\ (last.op = "domaincacheAdd" /\ last.key # <<>>)
          => domaincacheGet(domaincache, last.key)
                = [v |-> domaincacheCell(last.ans, last.trans), ok |-> TRUE]

(***************************************************************************)
(* The DNS front's claims                                                  *)
(***************************************************************************)

\* the domain the handler derives from a question
DomainOf(q) == SubSeq(q.name, 1, Len(q.name) - 1)

\* message m after domaincache.Add has rewritten the owner name of its first
\* address record to the domain's fully qualified name
WithOwner(m, domain) ==
    IF MsgExtractAnswerIdx(m) = 0 THEN m
    ELSE [m EXCEPT !.answer[MsgExtractAnswerIdx(m)].name = Fqdn(domain)]

\* the race gave a response with an address answer
GaveAddress(res) == res.kind = "ok" /\ MsgExtractAnswerIdx(res.msg) # 0

Hit(t) == [v |-> t, ok |-> TRUE]

\* C4: right after a query for d whose handler inserted (d -> ans, t) into
\* the domain cache, the next query for d starts no upstream race and its
\* reply carries exactly ans, the address record the first reply carried.
C4_CacheRoundTrip ==
    [][(/\ last.op = "dns"
        /\ last.dcAdd # <<>>
        /\ DomainOf(last.question) \in DOMAIN domaincache
        /\ domaincache[DomainOf(last.question)]
              = domaincacheCell(last.dcAdd[1].ans, last.dcAdd[1].trans)
        /\ last'.op = "dns"
        /\ last'.question.name = last.question.name)
       => (/\ last'.contacts = <<>>
           /\ ~last'.hung /\ ~last'.err
           /\ last'.reply.answer = <<last.dcAdd[1].ans>>
           /\ last.dcAdd[1].ans = MsgExtractAnswer(last.reply).ans
           /\ UNCHANGED cacheVars)]_vars

\* a query for the unknown domain was answered from the cache
C4_Witness ==
    /\ last.op = "dns"
    /\ last.branch = "cached"
    /\ last.contacts = <<>>
    /\ last.reply.answer = <<RR("A", Fqdn(<<"u">>), CN1)>>
    /\ <<"u">> \in DOMAIN domaincache

\* C5: a query for a domain that has no domain-cache entry and matches the
\* GFW list starts exactly one race, on the abroad upstream with
\* ECS = PROXY_IP, and calls MatchGFW only, also when the domain matches the
\* obedient list as well.
C5_GfwPrecedence ==
    [][(/\ last'.op = "dns"
        /\ ~domaincacheGet(domaincache, DomainOf(last'.question)).ok
        /\ MatchGFW(DomainOf(last'.question)))
       => (/\ last'.matched = <<"MatchGFW">>
           /\ Len(last'.contacts) = 1
           /\ last'.contacts[1].upstream = "abroad"
           /\ last'.contacts[1].ecs = DNS_SUBNET_PROXY_IP
           /\ last'.contacts[1].question = last'.question)]_vars

\* a domain under both lists was handled on the GFW path
C5_Witness ==
    /\ last.op = "dns"
    /\ MatchGFW(DomainOf(last.question))
    /\ MatchObedient(DomainOf(last.question))
    /\ last.branch = "gfw"
    /\ last.contacts[1].result.kind = "ok"

\* C6: GFW domain, the abroad race succeeded: the reply is the upstream
\* response, and when it has an address answer the domain cache then holds
\* (domain -> answer, PROXY) and the IP cache (answer's IP -> PROXY).
C6_GfwCaches ==
    (last.op = "dns" /\ last.branch = "gfw" /\ last.contacts[1].result.kind = "ok")
       => (/\ last.reply = WithOwner(last.contacts[1].result.msg, DomainOf(last.question))
           /\ MsgExtractAnswerIdx(last.reply) # 0
                => (/\ domaincacheGet(domaincache, DomainOf(last.question))
                          = Hit(domaincacheCell(MsgExtractAnswer(last.reply).ans, TRANS_PROXY))
                    /\ ipcacheGet(ipcache, IPString(MsgExtractAnswer(last.reply).ip))
                          = Hit(TRANS_PROXY)))

\* C7: obedient-list domain, the obedient race gave an address answer: the
\* request sent has no client subnet, the reply is the obedient response, and
\* the caches then hold (domain -> answer, DIRECT) and (answer's IP -> DIRECT).
C7_ObedientCaches ==
    (last.op = "dns" /\ last.branch = "obedient" /\ GaveAddress(last.contacts[1].result))
       => (/\ Len(last.contacts) = 1
           /\ last.contacts[1].upstream = "obedient"
           /\ last.contacts[1].ecs = Nil
           /\ last.reply = WithOwner(last.contacts[1].result.msg, DomainOf(last.question))
           /\ domaincacheGet(domaincache, DomainOf(last.question))
                 = Hit(domaincacheCell(MsgExtractAnswer(last.reply).ans, TRANS_DIRECT))
           /\ ipcacheGet(ipcache, IPString(MsgExtractAnswer(last.reply).ip))
                 = Hit(TRANS_DIRECT))

\* C8: obedient-list domain (not GFW, not cached) whose obedient race gave an
\* error or a response without an address answer: the handler then races the
\* abroad upstream with ECS = LOCAL_IP, replies with that response if that
\* race succeeds, and changes neither cache.
C8_ObedientRetry ==
    [][(/\ last'.op = "dns"
        /\ ~domaincacheGet(domaincache, DomainOf(last'.question)).ok
        /\ ~MatchGFW(DomainOf(last'.question))
        /\ MatchObedient(DomainOf(last'.question))
        /\ last'.contacts[1].result.kind # "hang"
        /\ ~GaveAddress(last'.contacts[1].result))
       => (/\ Len(last'.contacts) = 2
           /\ last'.contacts[1].upstream = "obedient"
           /\ last'.contacts[1].ecs = Nil
           /\ last'.contacts[2].upstream = "abroad"
           /\ last'.contacts[2].ecs = DNS_SUBNET_LOCAL_IP
           /\ last'.contacts[2].question = last'.question
           /\ last'.contacts[2].result.kind = "ok"
                => (last'.reply = last'.contacts[2].result.msg /\ ~last'.err)
           /\ last'.contacts[2].result.kind = "err"
                => (last'.reply = NilMsg /\ last'.err)
           /\ UNCHANGED cacheVars)]_vars

\* the retry answered with an address while the caches held entries, and
\* the domain got no entry
C8_Witness ==
    /\ last.op = "dns"
    /\ last.branch = "obedientRetry"
    /\ last.contacts[1].result.kind = "ok"
    /\ GaveAddress(last.contacts[2].result)
    /\ last.reply = last.contacts[2].result.msg
    /\ DOMAIN ipcache # {}
    /\ ~domaincacheGet(domaincache, DomainOf(last.question)).ok

\* the response the unknown-domain path replies with: the second choice's
\* when that race gave an address, else probe B's
Chosen(b, other) == IF GaveAddress(other) THEN other.msg ELSE b.msg

\* C9: unknown domain, probe B gave a domestic IPv4 address: the obedient
\* upstream is asked the original question without client subnet; the reply
\* is its response if it gave an address, else B's; the caches then hold
\* (domain -> chosen answer, DIRECT) and (chosen answer's IP -> DIRECT).
C9_UnknownDirect ==
    (last.op = "dns" /\ last.branch = "unknownDirect" /\ ~last.hung)
       => (/\ Len(last.contacts) = 3
           /\ last.contacts[3].upstream = "obedient"
           /\ last.contacts[3].ecs = Nil
           /\ last.contacts[3].question = last.question
           /\ last.reply = WithOwner(Chosen(last.contacts[2].result, last.contacts[3].result),
                                     DomainOf(last.question))
           /\ domaincacheGet(domaincache, DomainOf(last.question))
                 = Hit(domaincacheCell(MsgExtractAnswer(last.reply).ans, TRANS_DIRECT))
           /\ ipcacheGet(ipcache, IPString(MsgExtractAnswer(last.reply).ip))
                 = Hit(TRANS_DIRECT))

\* C10: unknown domain, probe B gave an IPv6 or a non-domestic IPv4 address:
\* the handler waits for probe A; the reply is A's response if it gave an
\* address, else B's; the caches then hold (domain -> chosen answer, PROXY)
\* and (chosen answer's IP -> PROXY).
C10_UnknownProxy ==
    (last.op = "dns" /\ last.branch = "unknownProxy" /\ ~last.hung)
       => (/\ Len(last.contacts) = 2
           /\ last.contacts[1].upstream = "abroad"
           /\ last.contacts[1].ecs = DNS_SUBNET_PROXY_IP
           /\ last.contacts[1].result.kind \in {"ok", "err"}
           /\ last.reply = WithOwner(Chosen(last.contacts[2].result, last.contacts[1].result),
                                     DomainOf(last.question))
           /\ domaincacheGet(domaincache, DomainOf(last.question))
                 = Hit(domaincacheCell(MsgExtractAnswer(last.reply).ans, TRANS_PROXY))
           /\ ipcacheGet(ipcache, IPString(MsgExtractAnswer(last.reply).ip))
                 = Hit(TRANS_PROXY))

\* the spec's IsDomesticIP: an IPv4 address inside one of the configured networks
IsDomesticIP(ip) == To4(ip) /\ ip.net \in chnIPList

\* the handler took the unknown-domain path: the name is outside the
\* pseudo-zone, the domain has no domain-cache entry and matches no list
UnknownPath(q, dc) ==
    /\ ~HasSuffix(q.name, DHCP_HOST_SUFFIX)
    /\ ~domaincacheGet(dc, DomainOf(q)).ok
    /\ ~MatchGFW(DomainOf(q))
    /\ ~MatchObedient(DomainOf(q))

\* probe B failed: a Race error, an RCODE other than NOERROR, or no address
BFailed(b) ==
    \/ b.kind = "err"
    \/ b.kind = "ok" /\ (MsgExtractAnswerIdx(b.msg) = 0 \/ b.msg.rcode # RcodeSuccess)

\* C11: DNS front, unknown domain, probe B failed: the third race is on the
\* obedient upstream with the original request (no client subnet); if it gives
\* an address, the reply is its response and the caches then hold
\* (domain -> answer, t) and (answer's IP -> t) with t = DIRECT for a domestic
\* IPv4 address and PROXY otherwise; if it returns an error, the handler ends
\* in the error, writes no reply and changes neither cache.
C11_UnknownBFailed ==
    [][(/\ last'.op = "dns"
        /\ UnknownPath(last'.question, domaincache)
        /\ BFailed(last'.contacts[2].result)
        /\ ~last'.hung)
       => (/\ Len(last'.contacts) = 3
           /\ last'.contacts[3].upstream = "obedient"
           /\ last'.contacts[3].ecs = Nil
           /\ last'.contacts[3].question = last'.question
           /\ GaveAddress(last'.contacts[3].result)
                => LET e == MsgExtractAnswer(last'.reply)
                       t == IF IsDomesticIP(e.ip) THEN TRANS_DIRECT ELSE TRANS_PROXY
                   IN /\ ~last'.err
                      /\ last'.reply = WithOwner(last'.contacts[3].result.msg,
                                                 DomainOf(last'.question))
                      /\ domaincacheGet(domaincache', DomainOf(last'.question))
                            = Hit(domaincacheCell(e.ans, t))
                      /\ ipcacheGet(ipcache', IPString(e.ip)) = Hit(t)
           /\ last'.contacts[3].result.kind = "err"
                => (last'.err /\ last'.reply = NilMsg /\ UNCHANGED cacheVars))]_vars

\* every race the handler read the result of returned an error
AllAttemptsFailed(contacts) ==
    /\ contacts # <<>>
    /\ \A k \in 1..Len(contacts) : contacts[k].result.kind \in {"err", "unread"}
    /\ \E k \in 1..Len(contacts) : contacts[k].result.kind = "err"

\* C12: a DNS query whose classification ends in an error gets no message
\* written at all (so no SERVFAIL); that is the case whenever every race on
\* its path returned an error; and no query gets more than one message.
C12_ErrorNoReply ==
    last.op = "dns"
       => (/\ last.err => last.written = <<>>
           /\ AllAttemptsFailed(last.contacts) => (last.err /\ last.written = <<>>)
           /\ Len(last.written) <= 1)

\* probe B and the obedient fallback both returned an error
C12_Witness ==
    /\ last.op = "dns"
    /\ last.branch = "unknownFailed"
    /\ last.contacts[2].result.kind = "err"
    /\ last.contacts[3].result.kind = "err"
    /\ last.err
    /\ last.written = <<>>

(***************************************************************************)
(* The startup gate's claims                                               *)
(***************************************************************************)

\* C13: when a front is asked to serve and the gate has not been evaluated
\* before, the front goes on to listen if and only if all eight globals are
\* non-nil, and returns the error if any one of them is nil.
C13_StartupGate ==
    [][\A f \in Fronts :
          (fronts[f] = "idle" /\ fronts'[f] # "idle" /\ ~validator.done)
             => (/\ fronts'[f] = "listening" <=> \A d \in Globals : globals[d]
                 /\ fronts'[f] = "refused" <=> \E d \in Globals : ~globals[d])]_vars

\* what a front does with the gate's result
GateAnswer(ok) == IF ok THEN "listening" ELSE "refused"

\* C29: the gate is evaluated once: after the first validate() call the
\* validator never changes, whatever InitGlobals does afterwards, and every
\* later call, from either front, gives the first call's result.
C29_GateEvaluatedOnce ==
    [][validator.done =>
          /\ validator' = validator
          /\ \A f \in Fronts :
                (fronts[f] = "idle" /\ fronts'[f] # "idle")
                   => fronts'[f] = GateAnswer(validator.ok)]_vars

\* Both fronts were refused by a gate that was evaluated while a global was
\* nil, and every global checked by the gate is non-nil now.
C29_Witness ==
    /\ validator = [done |-> TRUE, ok |-> FALSE]
    /\ \A f \in Fronts : fronts[f] = "refused"
    /\ \A d \in Globals : globals[d]

(***************************************************************************)
(* The proxy front's claims                                                *)
(***************************************************************************)

\* the relay a transport stands for
RelayOf(t) == IF t = TRANS_DIRECT THEN serverDirect ELSE serverProxy

\* the spec's classification of an address
ClassOf(ip) == IF IsDomesticIP(ip) THEN TRANS_DIRECT ELSE TRANS_PROXY

\* C14: a proxy request for an IP literal: when the IP cache holds the literal,
\* the connection goes to the relay of the cached transport and no cache
\* changes; when it does not, the literal's class (DIRECT iff domestic IPv4)
\* is inserted under the literal and the connection goes to that class's
\* relay.  No race is run and the request is not redirected.
C14_ProxyIpLiteral ==
    [][(last'.op = "proxy" /\ last'.target.type \in {AddrIPv4, AddrIPv6})
       => LET host == last'.target.host
          IN /\ last'.contacts = <<>>
             /\ last'.redirects = <<>>
             /\ last'.addr = last'.target
             /\ domaincache' = domaincache
             /\ IF host \in DOMAIN ipcache
                THEN /\ last'.server = RelayOf(ipcache[host])
                     /\ ipcache' = ipcache
                ELSE /\ last'.server = RelayOf(ClassOf(ParseIP(host)))
                     /\ ipcache' = (host :> ClassOf(ParseIP(host))) @@ ipcache]_vars

\* a literal outside the domestic networks that the IP cache holds as DIRECT
\* was dispatched to the DIRECT relay
C14_Witness ==
    /\ last.op = "proxy"
    /\ last.branch = "ipHit"
    /\ last.target = Addr(AddrIPv4, IPString(FR1), <<>>)
    /\ last.server = serverDirect

\* C15: a proxy request for a domain without domain-cache entry that matches
\* the GFW list goes to the PROXY relay, also when the domain matches the
\* obedient list; no race is run, the request is not redirected and no cache
\* changes.
C15_ProxyGfw ==
    [][(/\ last'.op = "proxy"
        /\ last'.target.type = AddrDomain
        /\ ~domaincacheGet(domaincache, last'.target.domain).ok
        /\ MatchGFW(last'.target.domain))
       => (/\ last'.server = serverProxy
           /\ ~last'.hung /\ ~last'.err
           /\ last'.contacts = <<>>
           /\ last'.redirects = <<>>
           /\ last'.addr = last'.target
           /\ UNCHANGED cacheVars)]_vars

\* a domain under both lists went to the PROXY relay while the caches held
\* entries
C15_Witness ==
    /\ last.op = "proxy"
    /\ last.branch = "gfw"
    /\ MatchObedient(last.target.domain)
    /\ last.server = serverProxy
    /\ DOMAIN ipcache # {}

\* C16: a proxy request for a domain with a domain-cache entry (ans, t) goes
\* to the relay of t; no race is run and no cache changes; setRedirect is
\* called, with the address of ans, exactly when t = DIRECT.
C16_ProxyDomainHit ==
    [][(/\ last'.op = "proxy"
        /\ last'.target.type = AddrDomain
        /\ last'.target.domain \in DOMAIN domaincache)
       => LET cell == domaincache[last'.target.domain]
          IN /\ last'.server = RelayOf(cell.trans)
             /\ ~last'.hung /\ ~last'.err
             /\ last'.contacts = <<>>
             /\ UNCHANGED cacheVars
             /\ last'.redirects = IF cell.trans = TRANS_DIRECT THEN <<cell.ans.addr>> ELSE <<>>]_vars

\* a DIRECT entry with an AAAA record, which only the DNS front writes, was
\* hit by a proxy request
C16_Witness ==
    /\ last.op = "proxy"
    /\ last.branch = "cached"
    /\ last.server = serverDirect
    /\ last.redirects = <<V61>>

\* record ans with the owner name domaincache.Add gives it
Owned(ans, domain) == [ans EXCEPT !.name = Fqdn(domain)]

\* after the step the caches hold (domain -> ans, t) and (ans's IP -> t)
BothCached(domain, ans, t) ==
    /\ domaincacheGet(domaincache', domain) = Hit(domaincacheCell(Owned(ans, domain), t))
    /\ ipcacheGet(ipcache', IPString(ans.addr)) = Hit(t)

\* a proxy request for a domain that has no domain-cache entry
ProxyMiss(l, dc) ==
    /\ l.op = "proxy"
    /\ l.target.type = AddrDomain
    /\ ~domaincacheGet(dc, l.target.domain).ok

\* C17: proxy front, obedient-list domain (no cache entry, not GFW): one A
\* query goes to the obedient upstream without client subnet and the
\* connection goes to the DIRECT relay; if the query gave an address,
\* setRedirect is called with it and the caches then hold (ip -> DIRECT) and
\* (domain -> answer, DIRECT); if not, there is no redirect and no cache change.
C17_ProxyObedient ==
    [][(/\ ProxyMiss(last', domaincache)
        /\ ~MatchGFW(last'.target.domain)
        /\ MatchObedient(last'.target.domain)
        /\ ~last'.hung)
       => LET d == last'.target.domain
              o == last'.contacts[1].result
          IN /\ Len(last'.contacts) = 1
             /\ last'.contacts[1].upstream = "obedient"
             /\ last'.contacts[1].ecs = Nil
             /\ last'.contacts[1].question = QuestionA(d)
             /\ last'.server = serverDirect
             /\ GaveAddress(o)
                  => (/\ last'.redirects = <<MsgExtractAnswer(o.msg).ip>>
                      /\ BothCached(d, MsgExtractAnswer(o.msg).ans, TRANS_DIRECT))
             /\ ~GaveAddress(o)
                  => (/\ last'.redirects = <<>>
                      /\ last'.addr = last'.target
                      /\ UNCHANGED cacheVars)]_vars

\* C18: proxy front, unknown domain, the abroad A query with ECS = LOCAL_IP
\* gave an address: for a domestic IPv4 address the obedient upstream is
\* queried, its address is the chosen one if it gave one, setRedirect is
\* called with the chosen address and the relay is DIRECT; otherwise the relay
\* is PROXY and the request's target is left as it was; in both cases the
\* caches then hold the chosen answer and its IP with that transport.
C18_ProxyUnknownAnswered ==
    [][(/\ ProxyMiss(last', domaincache)
        /\ ~MatchGFW(last'.target.domain)
        /\ ~MatchObedient(last'.target.domain)
        /\ GaveAddress(last'.contacts[1].result)
        /\ ~last'.hung)
       => LET d == last'.target.domain
              eb == MsgExtractAnswer(last'.contacts[1].result.msg)
          IN /\ last'.contacts[1].upstream = "abroad"
             /\ last'.contacts[1].ecs = DNS_SUBNET_LOCAL_IP
             /\ last'.contacts[1].question = QuestionA(d)
             /\ IF IsDomesticIP(eb.ip)
                THEN /\ Len(last'.contacts) = 2
                     /\ last'.contacts[2].upstream = "obedient"
                     /\ last'.contacts[2].ecs = Nil
                     /\ last'.contacts[2].question = QuestionA(d)
                     /\ LET o == last'.contacts[2].result
                            e == IF GaveAddress(o) THEN MsgExtractAnswer(o.msg) ELSE eb
                        IN /\ last'.redirects = <<e.ip>>
                           /\ last'.server = serverDirect
                           /\ BothCached(d, e.ans, TRANS_DIRECT)
                ELSE /\ Len(last'.contacts) = 1
                     /\ last'.redirects = <<>>
                     /\ last'.addr = last'.target
                     /\ last'.server = serverProxy
                     /\ BothCached(d, eb.ans, TRANS_PROXY)]_vars

\* C19: proxy front, unknown domain, the abroad query failed (an error or no
\* address): the obedient upstream is queried once; if it gave an address, the
\* connection is classified by it (DIRECT relay and a setRedirect call for a
\* domestic IPv4 address, PROXY relay and no redirect otherwise) and the
\* caches then hold the answer and its IP with that transport; if not, the
\* relay is PROXY, there is no redirect and no cache change.
C19_ProxyUnknownFailed ==
    [][(/\ ProxyMiss(last', domaincache)
        /\ ~MatchGFW(last'.target.domain)
        /\ ~MatchObedient(last'.target.domain)
        /\ last'.contacts[1].result.kind # "hang"
        /\ ~GaveAddress(last'.contacts[1].result)
        /\ ~last'.hung)
       => LET d == last'.target.domain
              o == last'.contacts[2].result
              eo == MsgExtractAnswer(o.msg)
          IN /\ Len(last'.contacts) = 2
             /\ last'.contacts[2].upstream = "obedient"
             /\ last'.contacts[2].ecs = Nil
             /\ last'.contacts[2].question = QuestionA(d)
             /\ GaveAddress(o)
                  => (/\ last'.server = RelayOf(ClassOf(eo.ip))
                      /\ last'.redirects = IF IsDomesticIP(eo.ip) THEN <<eo.ip>> ELSE <<>>
                      /\ BothCached(d, eo.ans, ClassOf(eo.ip)))
             /\ ~GaveAddress(o)
                  => (/\ last'.server = serverProxy
                      /\ last'.redirects = <<>>
                      /\ last'.addr = last'.target
                      /\ UNCHANGED cacheVars)]_vars

\* an IPv6 address (16 bytes, no IPv4 form)
IsIPv6(ip) == ip.len = 16

\* C20: no IPv6 address is stored or dispatched DIRECT: every IP-cache entry
\* under an IPv6 address and every domain-cache entry with an AAAA record
\* carries PROXY, and no proxy request for an IPv6 literal, and none
\* redirected to an IPv6 address, goes to the DIRECT relay.
C20_Ipv6AlwaysProxy ==
    /\ \A k \in DOMAIN ipcache : IsIPv6(ParseIP(k)) => ipcache[k] = TRANS_PROXY
    /\ \A d \in DOMAIN domaincache :
          domaincache[d].ans.rrtype = "AAAA" => domaincache[d].trans = TRANS_PROXY
    /\ last.op = "proxy"
          => (/\ last.target.type = AddrIPv6 => last.server # serverDirect
              /\ \A k \in 1..Len(last.redirects) :
                    IsIPv6(last.redirects[k]) => last.server # serverDirect)


(***************************************************************************)
(* C21  Bootstrap                                                          *)
(***************************************************************************)

FrontReturned == proxyFront.pc = "returned" \/ dnsFront.pc = "returned"

Terminated == mainPc \in {"exited", "crashed"}

\* C21: the two fronts run side by side; once either of them has returned,
\* with or without an error, the process ends, never with exit code 0, and
\* it ends whatever the other front is doing.
C21_FirstReturnExits ==
    /\ [](Terminated => exitCode # 0)
    /\ [](mainPc = "exited" =>
             \/ proxyFront.pc \in {"done", "listen"}
             \/ dnsFront.pc = "done")
    /\ (FrontReturned ~> (Terminated /\ exitCode # 0))

\* ServeDNS returned without an error and the process exited with a non-zero
\* code while the proxy front was still in its accept loop.
C21_Witness ==
    /\ mainPc = "exited"
    /\ exitCode # 0
    /\ dnsFront.pc = "done"
    /\ dnsFront.err = Nil
    /\ proxyFront.pc = "accept"

(***************************************************************************)
(* C26  Per-request error isolation                                        *)
(***************************************************************************)

FailsIn(i) ==
    /\ i \in 1..Len(handlers)
    /\ handlers[i].pc = "running"
    /\ handlers'[i].pc = "failed"

\* C26: the step in which the handler of one proxy connection or of one DNS
\* query ends with an error changes nothing but that handler: the process goes
\* on, neither front returns, the accept loop and the listeners stay as they
\* were, and the other handlers are left alone.
C26_HandlerErrorIsolated ==
    [][\A i \in 1..MaxConns :
          FailsIn(i) =>
             /\ mainPc' = mainPc
             /\ exitCode' = exitCode
             /\ proxyFront' = proxyFront
             /\ dnsFront' = dnsFront
             /\ \A j \in 1..Len(handlers) : j # i => handlers'[j] = handlers[j]]_vars

\* A proxy handler and a DNS handler have both failed and both fronts are
\* still serving.
C26_Witness ==
    /\ mainPc = "recv"
    /\ proxyFront.pc = "accept"
    /\ dnsFront.pc = "recv"
    /\ \A n \in ListenerNets : dnsFront.listeners[n].pc = "serving"
    /\ \E i, j \in 1..Len(handlers) :
          /\ handlers[i] = [front |-> "proxy", conn |-> "conn", pc |-> "failed"]
          /\ handlers[j] = [front |-> "dns", conn |-> "conn", pc |-> "failed"]

(***************************************************************************)
(* C27  The accept loop after a failed Accept                              *)
(***************************************************************************)

\* C27: every handler the proxy accept loop starts runs on a connection that
\* Accept returned; none is started on a missing (nil) connection.
C27_NoHandlerOnNilConn ==
    \A i \in 1..Len(handlers) :
        handlers[i].front = "proxy" => handlers[i].conn # Nil

(***************************************************************************)
(* C28  serveDNS and its two listeners                                     *)
(***************************************************************************)

DnsServing == dnsFront.pc \in {"recv", "returned", "done"}

DnsReturned == dnsFront.pc \in {"returned", "done"}

\* C28: serveDNS starts a listener on udp and one on tcp; it returns only
\* after one of them returned, with the error of a listener that returned,
\* never while both are serving; and once a listener has returned serveDNS
\* returns (or the process has ended before).
C28_ServeDNSFirstListener ==
    /\ [](DnsServing =>
             \A n \in {"udp", "tcp"} :
                /\ n \in DOMAIN dnsFront.listeners
                /\ dnsFront.listeners[n].pc # "unspawned")
    /\ [](DnsReturned =>
             \E n \in DOMAIN dnsFront.listeners :
                /\ dnsFront.listeners[n].pc = "sent"
                /\ dnsFront.listeners[n].err = dnsFront.err)
    /\ ((\E n \in DOMAIN dnsFront.listeners : dnsFront.listeners[n].pc = "returned")
           ~> (DnsReturned \/ Terminated))

\* The udp listener returned an error, serveDNS returned it, and the tcp
\* listener is still serving.
C28_Witness ==
    /\ dnsFront.pc = "returned"
    /\ dnsFront.err = "listenErr"
    /\ dnsFront.listeners["udp"].pc = "sent"
    /\ dnsFront.listeners["tcp"].pc = "serving"


(***************************************************************************)
(* C22, C23  The probe join and the goroutines' ends                       *)
(***************************************************************************)

AllExchangesReturn == \A i \in Probes : exchange[i].kind # "hang"

\* C22: probe A is started before probe B is awaited; the handler receives
\* from A's channel in the PROXY branch only; in the DIRECT and B-failed
\* branches it completes with A's channel untouched, whatever A is doing; and
\* A's goroutine, all of whose Exchange calls return, completes.
C22_ProbeJoin ==
    /\ [](joinPc \in {"raceB", "raceO", "awaitA", "done"} => aPc # "unspawned")
    /\ [][await' # await /\ Len(await') < Len(await)
             => joinPc = "awaitA" /\ joinBranch = BranchProxy]_vars
    /\ [][joinPc' = "done" /\ joinPc # "done" /\ joinBranch # BranchProxy
             => await' = await /\ aPc' = aPc]_vars
    /\ [](aPc = "race" /\ AllExchangesReturn => <>(aPc = "done"))

\* C23: no probe of a race and no probe A is ever held at a channel send
\* for ever: a send on resp or on A's channel always finds room, and every
\* probe whose Exchange returns runs to its end, also after the race has
\* returned to its caller.
C23_NoBlockedSend ==
    /\ [](\A i \in Probes :
             probePc[i] \in {"sendResp", "sendNil"} => Len(resp) < respCap)
    /\ [](aPc = "send" => Len(await) < awaitCap)
    /\ \A i \in Probes :
          [](probePc[i] = "exchange" /\ exchange[i].kind # "hang"
                => <>(probePc[i] = "done"))
    /\ [](aPc = "send" => <>(aPc = "done"))

\* All three probes succeeded: the race returned the first response, the two
\* others were sent after it and stay in the channel, every probe has ended,
\* and probe A has sent its result though the handler never reads it.
C23_Witness ==
    /\ racePc = "returned"
    /\ \A i \in Probes : probePc[i] = "done" /\ exchange[i].kind = "ok"
    /\ Len(resp) = spawnNum - 1
    /\ aPc = "done"
    /\ joinPc = "done"
    /\ joinBranch = BranchDirect
    /\ Len(await) = 1


(***************************************************************************)
(* C25  The request of the obedient race                                   *)
(***************************************************************************)

\* C25: every request written to the obedient upstream carries no ECS option,
\* and req is not given an ECS option while a probe of the obedient race has
\* still to write it, the probes that lost a race which already returned
\* included.
C25_ObedientRequestUntouched ==
    /\ [](obPc # "off" => \A e \in wire : e = Nil)
    /\ [][(obPc # "off" /\ reqEcs' # reqEcs)
             => \A i \in Probes : probePc[i] # "exchange"]_vars


(***************************************************************************)
(* C24  Cross-cache agreement                                              *)
(***************************************************************************)

\* C24: at every time, for every domain-cache entry (d -> ans, t) whose
\* answer address has an IP-cache entry, that IP-cache entry's transport is
\* t: the domain and its resolved address go to the same relay.
C24_CrossCacheAgreement ==
    \A d \in DOMAIN domaincache :
        LET cell == domaincache[d]
            hit == ipcacheGet(ipcache, IPString(cell.ans.addr))
        IN hit.ok => hit.v = cell.trans


(***************************************************************************)
(* C30  The pseudo-zone .DHCP\ HOST.                                       *)
(***************************************************************************)

IsDhcpHost(q) == HasSuffix(q.name, DHCP_HOST_SUFFIX)

\* C30: a query whose name ends in .DHCP\ HOST. is answered at once: one
\* NOERROR reply with the query's id, opcode and question, the response and
\* RA flags set and no answer record; no matcher is called, no upstream is
\* contacted and neither cache is written or changed.
C30_DhcpHostReply ==
    [][(last'.op = "dns" /\ IsDhcpHost(last'.question))
       => LET req == Request(last'.question)
          IN /\ Len(last'.written) = 1
             /\ last'.written[1].nil = FALSE
             /\ last'.written[1].rcode = RcodeSuccess
             /\ last'.written[1].hdr.id = req.hdr.id
             /\ last'.written[1].hdr.opcode = req.hdr.opcode
             /\ last'.written[1].hdr.response
             /\ last'.written[1].hdr.ra
             /\ last'.written[1].question = <<last'.question>>
             /\ last'.written[1].answer = <<>>
             /\ last'.branch = "dhcp"
             /\ last'.matched = <<>>
             /\ last'.contacts = <<>>
             /\ last'.dcAdd = <<>> /\ last'.icAdd = <<>>
             /\ domaincache' = domaincache /\ ipcache' = ipcache]_vars

\* An AAAA query with opcode NOTIFY for h.DHCP\ HOST. was answered while both
\* caches held entries.
C30_Witness ==
    /\ last.op = "dns"
    /\ IsDhcpHost(last.question)
    /\ last.question.qtype = "AAAA"
    /\ Len(last.written) = 1
    /\ last.written[1].hdr = MsgHdr("id2", TRUE, OpcodeNotify, TRUE)
    /\ domaincache # <<>>
    /\ ipcache # <<>>


(***************************************************************************)
(* C31  MsgSetECSWithAddr                                                  *)
(***************************************************************************)

OptsOf(m) == {k \in 1..Len(m.extra) : m.extra[k].rrtype = "OPT"}

SubnetsOf(options) == {j \in 1..Len(options) : options[j].code = "SUBNET"}

LastGiven == benchLog[Len(benchLog)]

\* C31: after one or more MsgSetECSWithAddr calls with non-nil addresses on
\* a message that had at most one OPT record with at most one subnet option,
\* the message has exactly one OPT record with exactly one subnet option; that
\* option holds the last address given, family 1 and prefix 32 for IPv4,
\* family 2 and prefix 128 for IPv6, scope 0; and one more call with the same
\* address leaves the message as it is.
C31_SetEcsSingleOption ==
    benchLog # <<>> =>
        /\ Cardinality(OptsOf(benchMsg)) = 1
        /\ \A k \in OptsOf(benchMsg) :
              /\ Cardinality(SubnetsOf(benchMsg.extra[k].option)) = 1
              /\ \A j \in SubnetsOf(benchMsg.extra[k].option) :
                    benchMsg.extra[k].option[j] =
                        [code |-> "SUBNET", address |-> LastGiven,
                         family |-> IF LastGiven = V61.text THEN 2 ELSE 1,
                         netmask |-> IF LastGiven = V61.text THEN 128 ELSE 32,
                         scope |-> 0]
        /\ MsgSetECSWithAddr(benchMsg, LastGiven) = benchMsg

\* A message that came with a cookie and a client's subnet option was given an
\* IPv4 and then the IPv6 address: its OPT record holds the cookie and one
\* subnet option.
C31_Witness ==
    /\ benchLog = <<DNS_SUBNET_LOCAL_IP, V61.text>>
    /\ Len(benchMsg.extra) = 1
    /\ Len(benchMsg.extra[1].option) = 2
    /\ benchMsg.extra[1].option[1] = BenchCookie
    /\ benchMsg.extra[1].option[2].address = V61.text

(***************************************************************************)
(* C32, C33  The proxy connection's first bytes                            *)
(***************************************************************************)

\* C32: whenever the handler chooses a protocol, it chooses SOCKS5 if and
\* only if the stream's first byte is 0x05, and HTTP for every other first
\* byte and for a stream without bytes.
C32_ProtocolSniff ==
    /\ proto = "socks5" => (stream # <<>> /\ stream[1] = 5)
    /\ proto = "http" => (stream = <<>> \/ stream[1] # 5)
    /\ (cc.wrapped => proto \in {"socks5", "http"})

\* a stream that starts with 0x04 is handled as HTTP
C32_Witness ==
    /\ proto = "http"
    /\ stream # <<>>
    /\ stream[1] = 4
    /\ got = stream

\* C33: what the parser has read, then the rest of the prefix, then the rest
\* of the connection are at every time the client's stream: nothing is lost,
\* doubled or reordered; the connection is read only once the prefix is used
\* up; the end of the prefix is a read of no bytes without error; the end of
\* stream is reported only when every byte was delivered.
C33_PrefetchStream ==
    /\ [](cc.wrapped => got \o cc.r \o cc.conn = stream)
    /\ [][cc.wrapped /\ cc'.conn # cc.conn => cc.r = <<>> /\ cc.reof]_vars
    /\ [][cc.wrapped /\ ~cc.reof /\ cc'.reof => rd'.err = Nil /\ rd'.n = 0]_vars
    /\ [](rd.err # Nil => cc.reof /\ cc.conn = <<>> /\ got = stream)

\* the parser read a stream of four bytes to its end and was then told the
\* end of stream
C33_Witness ==
    /\ Len(stream) = 4
    /\ got = stream
    /\ rd.err = "EOF"
    /\ cc.reof

(***************************************************************************)
(* C34  The matcher                                                        *)
(***************************************************************************)

\* domain is rule, or ends in a dot followed by rule
RuleMatches(domain, rule) ==
    \/ domain = rule
    \/ /\ Len(domain) > Len(rule)
       /\ domain[Len(domain) - Len(rule)] = "."
       /\ \A k \in 1..Len(rule) : domain[Len(domain) - Len(rule) + k] = rule[k]

\* C34: MatchGFW and MatchObedient are true exactly for the domains that
\* equal a rule of their list or end in "." followed by a rule; a domain that
\* ends with a rule's characters without the dot does not match.
C34_MatcherSuffix ==
    matchOut.done =>
        /\ matchOut.gfw <=> \E k \in 1..Len(gfwList) : RuleMatches(matchIn, gfwList[k])
        /\ matchOut.obedient
              <=> \E k \in 1..Len(chineseList) : RuleMatches(matchIn, chineseList[k])

\* "xg" ends with the characters of rule "g" and does not match the GFW list
C34_Witness ==
    /\ matchOut.done
    /\ matchIn = <<"x", "g">>
    /\ ~matchOut.gfw

(***************************************************************************)
(* C35, C36  MsgExtractAnswer                                              *)
(***************************************************************************)

IsAddressRecord(rr) == rr.rrtype \in {"A", "AAAA"} /\ rr.addr.len # 0

\* C35: MsgExtractAnswer returns the first record of the Answer section that
\* is an A or AAAA record with a non-empty address, and that record's address;
\* every record before it is passed over; for a nil message and for a message
\* without such a record it returns no answer.
C35_ExtractFirstAddress ==
    benchAns.done =>
        IF benchMsg.nil \/ \A k \in 1..Len(benchMsg.answer) : ~IsAddressRecord(benchMsg.answer[k])
        THEN benchAns.ans = NilRR /\ benchAns.ip = NilIP
        ELSE \E k \in 1..Len(benchMsg.answer) :
                /\ IsAddressRecord(benchMsg.answer[k])
                /\ \A l \in 1..(k - 1) : ~IsAddressRecord(benchMsg.answer[l])
                /\ benchAns.ans = benchMsg.answer[k]
                /\ benchAns.ip = benchMsg.answer[k].addr

\* an A record with an empty address was passed over for the AAAA record
\* behind it
C35_Witness ==
    /\ benchAns.done
    /\ ~benchMsg.nil
    /\ benchMsg.answer = <<RR("A", BenchName, NilIP), RR("AAAA", BenchName, V61)>>
    /\ benchAns.ip = V61


FirstIsCname == ~benchMsg.nil /\ benchMsg.answer # <<>> /\ benchMsg.answer[1].rrtype = "CNAME"

\* C36 as stated: for a message whose first Answer record is a CNAME,
\* MsgExtractAnswer returns no answer, whatever follows the CNAME.
C36_CnameYieldsNoAnswer ==
    (benchAns.done /\ FirstIsCname) => (benchAns.ans = NilRR /\ benchAns.ip = NilIP)

\* C36, amended: MsgExtractAnswer starts no query for a CNAME's target, but
\* it passes over a leading CNAME like any other record: when an A or AAAA
\* record with a non-empty address follows it in the same Answer section, that
\* record and its address are returned; no answer is returned only when none
\* follows.
C36_CnamePassedOver ==
    (benchAns.done /\ FirstIsCname) =>
        /\ (\E k \in 2..Len(benchMsg.answer) : IsAddressRecord(benchMsg.answer[k]))
              => (benchAns.ans # NilRR /\ IsAddressRecord(benchAns.ans)
                  /\ benchAns.ip = benchAns.ans.addr)
        /\ (\A k \in 2..Len(benchMsg.answer) : ~IsAddressRecord(benchMsg.answer[k]))
              => (benchAns.ans = NilRR /\ benchAns.ip = NilIP)

\* a CNAME followed by an A record: the A record's address is returned
C36_Witness ==
    /\ benchAns.done
    /\ ~benchMsg.nil
    /\ benchMsg.answer = <<RR("CNAME", BenchName, NilIP), RR("A", BenchName, CN1)>>
    /\ benchAns.ip = CN1

\* C37: whenever a SOCKS5 request is redirected, its target becomes the text
\* of the address with the address type IPv4, for an IPv6 address too; so a
\* DIRECT domain cached with an AAAA record leaves an IPv6 literal tagged IPv4.
C37_Socks5RedirectTaggedIPv4 ==
    [][(/\ last'.op = "proxy"
        /\ last'.kind = "socks5"
        /\ last'.redirects # <<>>)
       => (/\ last'.addr.type = AddrIPv4
           /\ last'.addr.host = IPString(last'.redirects[Len(last'.redirects)])
           /\ last'.addr.domain = <<>>)]_vars

\* a SOCKS5 connect to a DIRECT domain cached with an AAAA record: the target
\* is the IPv6 literal, tagged IPv4
C37_Witness ==
    /\ last.op = "proxy"
    /\ last.kind = "socks5"
    /\ last.branch = "cached"
    /\ last.redirects = <<V61>>
    /\ last.addr = Addr(AddrIPv4, V61.text, <<>>)

\* C38: a reply served from the domain cache answers the question asked: for
\* a query of type T the cached record returned has type T.
C38_CachedReplyHasAskedType ==
    [][(/\ last'.op = "dns"
        /\ last'.branch = "cached")
       => \A k \in 1..Len(last'.reply.answer) :
             last'.reply.answer[k].rrtype = last'.question.qtype]_vars

\* C39: every domain-cache entry, whichever front and branch inserted it,
\* holds an A or AAAA record with a non-empty address; hence the proxy front's
\* cache-hit branch never ends in its "unreachable!" error.
C39_DomainCacheHoldsAddresses ==
    /\ \A d \in DOMAIN domaincache : IsAddressRecord(domaincache[d].ans)
    /\ ~(last.op = "proxy" /\ last.branch = "cached" /\ last.err)

\* an HTTP request hit a DIRECT entry of the domain cache that holds an A record
C39_Witness ==
    /\ last.op = "proxy"
    /\ last.kind = "http"
    /\ last.branch = "cached"
    /\ ~last.err
    /\ last.server = serverDirect
    /\ last.target.domain \in DOMAIN domaincache
    /\ domaincache[last.target.domain].ans.rrtype = "A"
    /\ last.redirects = <<domaincache[last.target.domain].ans.addr>>

\* the step was a run of one front's handler on its unknown-domain path
OnUnknownPath ==
    \/ last'.op = "dns" /\ UnknownPath(last'.question, domaincache)
    \/ /\ ProxyMiss(last', domaincache)
       /\ ~MatchGFW(last'.target.domain)
       /\ ~MatchObedient(last'.target.domain)

\* C40: in the unknown-domain path of both fronts, an address is given to
\* ipcache.Add or domaincache.Add with transport DIRECT only if that same
\* address is a domestic IPv4 address, the address of the obedient re-query
\* that replaces probe B's included.
C40_DirectOnlyForDomestic ==
    [][OnUnknownPath
       => (/\ \A k \in 1..Len(last'.dcAdd) :
                 last'.dcAdd[k].trans = TRANS_DIRECT
                    => IsDomesticIP(last'.dcAdd[k].ans.addr)
           /\ \A k \in 1..Len(last'.icAdd) :
                 last'.icAdd[k].trans = TRANS_DIRECT
                    => IsDomesticIP(ParseIP(last'.icAdd[k].ip)))]_vars

====
